---------------------------- MODULE Spec2Model ----------------------------
(***************************************************************************)
(* Model of the optimisation core of ideal-group                           *)
(* (src/src/ideal_group/algorithm.py, src/src/ideal_group/models.py).      *)
(*                                                                         *)
(* A Project is a record                                                   *)
(*   [students |-> Seq(Student), groups |-> Seq(Group), weights |-> W]     *)
(* Student = [id, characteristics, liked, disliked]                        *)
(* Group   = [name, max_size, constraints, student_ids, pinned_student_ids]*)
(* Constraint = [characteristic, constraint_type, value]                   *)
(*                                                                         *)
(* Python objects live in a heap (reference -> Project value) so that      *)
(* aliasing and deepcopy are visible.  Weights and scores are integers     *)
(* (the Python floats hold integral values for integral weights).          *)
(* Temperatures are fixed-point numbers with six decimals.                 *)
(***************************************************************************)
EXTENDS Integers, Sequences, FiniteSets, TLC

\* ------------------------------------------------------------------------
\* Bounds of the model
\* ------------------------------------------------------------------------
NumStudents == 2
NumStepStudents == 3
MaxRestarts == 3
MaxIterations == 1

\* ------------------------------------------------------------------------
\* Generic helpers
\* ------------------------------------------------------------------------
SetOf(seq) == {seq[i] : i \in DOMAIN seq}

Max2(a, b) == IF a >= b THEN a ELSE b

Min2(a, b) == IF a <= b THEN a ELSE b

RECURSIVE SumSeq(_)
SumSeq(s) == IF s = <<>> THEN 0 ELSE Head(s) + SumSeq(Tail(s))

\* list.remove(x): drop the first occurrence of x
RECURSIVE ListRemove(_, _)
ListRemove(s, x) ==
    IF s = <<>> THEN <<>>
    ELSE IF Head(s) = x THEN Tail(s)
    ELSE <<Head(s)>> \o ListRemove(Tail(s), x)

\* [x for x in s if x in keep]
RECURSIVE ListFilter(_, _)
ListFilter(s, keep) ==
    IF s = <<>> THEN <<>>
    ELSE IF Head(s) \in keep THEN <<Head(s)>> \o ListFilter(Tail(s), keep)
    ELSE ListFilter(Tail(s), keep)

\* all orderings of a finite set, as sequences
Perms(S) ==
    {p \in [1..Cardinality(S) -> S] : \A i, j \in 1..Cardinality(S) : i # j => p[i] # p[j]}

\* ------------------------------------------------------------------------
\* models.py
\* ------------------------------------------------------------------------
ALL == "all"

SOME == "some"

MAX == "max"

\* Optional[int] value of a Constraint: None is modelled by -1
None == 0 - 1

\* Python truthiness of constraint.value (None and 0 are falsy)
Truthy(value) == value # None /\ value # 0

\* student.characteristics.get(char) is True
HasChar(student, char) ==
    /\ char \in DOMAIN student.characteristics
    /\ student.characteristics[char] = TRUE

\* ------------------------------------------------------------------------
\* Lookup cache
\* ------------------------------------------------------------------------
_build_lookup(project) ==
    LET ids == {project.students[i].id : i \in DOMAIN project.students}
        last(id) == CHOOSE i \in DOMAIN project.students :
                        /\ project.students[i].id = id
                        /\ \A j \in DOMAIN project.students :
                              project.students[j].id = id => j <= i
    IN [id \in ids |-> project.students[last(id)]]

\* sum(1 for sid in student_ids
\*     if lookup.get(sid) and lookup[sid].characteristics.get(char) is True)
CountWithChar(student_ids, lookup, char) ==
    Cardinality({i \in DOMAIN student_ids :
                    /\ student_ids[i] \in DOMAIN lookup
                    /\ HasChar(lookup[student_ids[i]], char)})

\* ------------------------------------------------------------------------
\* Incremental scoring helpers
\* ------------------------------------------------------------------------
\* variant: the preferences of the other students toward the moving one are left out
_student_delta_own(student_id, old_group_ids, new_group_ids, lookup, likes_w, dislikes_w) ==
    IF student_id \notin DOMAIN lookup THEN 0
    ELSE
    LET student == lookup[student_id]
    IN (Cardinality(SetOf(student.liked) \cap new_group_ids)
        - Cardinality(SetOf(student.liked) \cap old_group_ids)) * likes_w
       - (Cardinality(SetOf(student.disliked) \cap new_group_ids)
          - Cardinality(SetOf(student.disliked) \cap old_group_ids)) * dislikes_w

_student_delta(student_id, old_group_ids, new_group_ids, lookup, likes_w, dislikes_w) ==
    IF student_id \notin DOMAIN lookup THEN 0
    ELSE
    LET student == lookup[student_id]
        likes_lost == Cardinality(SetOf(student.liked) \cap old_group_ids)
        likes_gained == Cardinality(SetOf(student.liked) \cap new_group_ids)
        dislikes_lost == Cardinality(SetOf(student.disliked) \cap old_group_ids)
        dislikes_gained == Cardinality(SetOf(student.disliked) \cap new_group_ids)
        own == (likes_gained - likes_lost) * likes_w
               - (dislikes_gained - dislikes_lost) * dislikes_w
        likers(ids) == Cardinality({o \in ids \cap DOMAIN lookup :
                                       student_id \in SetOf(lookup[o].liked)})
        dislikers(ids) == Cardinality({o \in ids \cap DOMAIN lookup :
                                       student_id \in SetOf(lookup[o].disliked)})
    IN own
       - likers(old_group_ids) * likes_w + dislikers(old_group_ids) * dislikes_w
       + likers(new_group_ids) * likes_w - dislikers(new_group_ids) * dislikes_w

\* ------------------------------------------------------------------------
\* Constraint penalty (full recalculation)
\* ------------------------------------------------------------------------
pinned_students(project) ==
    UNION {SetOf(project.groups[g].pinned_student_ids) : g \in DOMAIN project.groups}

\* variant: pinned students are not skipped
char_students_with_pinned(project, char) ==
    {project.students[i].id :
        i \in {j \in DOMAIN project.students : HasChar(project.students[j], char)}}

\* char_students[char]: non-pinned student ids that have char = True
char_students(project, char) ==
    {project.students[i].id :
        i \in {j \in DOMAIN project.students :
                  /\ project.students[j].id \notin pinned_students(project)
                  /\ HasChar(project.students[j], char)}}

\* the 100-per-extra-student term of one group
SizePenalty(group) ==
    IF Len(group.student_ids) > group.max_size
    THEN (Len(group.student_ids) - group.max_size) * 100
    ELSE 0

\* the term one constraint of one group adds to the penalty
ConstraintTerm(project, lookup, group, constraint) ==
    LET char_name == constraint.characteristic
        group_ids == SetOf(group.student_ids)
        pinned_in_group == SetOf(group.pinned_student_ids)
        non_pinned_in_group == group_ids \ pinned_in_group
        students_with_char == char_students(project, char_name)
        students_with_char_in_group == students_with_char \cap non_pinned_in_group
    IN CASE constraint.constraint_type = ALL ->
              Cardinality(students_with_char \ group_ids) * 50
         [] constraint.constraint_type = MAX ->
              IF /\ Truthy(constraint.value)
                 /\ Cardinality(students_with_char_in_group) > constraint.value
              THEN (Cardinality(students_with_char_in_group) - constraint.value) * 50
              ELSE 0
         [] constraint.constraint_type = SOME ->
              IF CountWithChar(group.student_ids, lookup, char_name) = 0
              THEN 25 ELSE 0
         [] OTHER -> 0

\* the part of the penalty contributed by the constraints of the given types
TypedPenalty(project, lookup, types) ==
    SumSeq([g \in DOMAIN project.groups |->
        SumSeq([c \in DOMAIN project.groups[g].constraints |->
            IF project.groups[g].constraints[c].constraint_type \in types
            THEN ConstraintTerm(project, lookup, project.groups[g],
                                project.groups[g].constraints[c])
            ELSE 0])])

TotalSizePenalty(project) ==
    SumSeq([g \in DOMAIN project.groups |-> SizePenalty(project.groups[g])])

calculate_constraint_penalty(project, lookup) ==
    TotalSizePenalty(project) + TypedPenalty(project, lookup, {ALL, MAX, SOME})

\* likes minus dislikes of one group (no constraint penalty)
PeerScore(group, lookup, likes_w, dislikes_w) ==
    LET gids == SetOf(group.student_ids)
    IN SumSeq([k \in DOMAIN group.student_ids |->
          IF group.student_ids[k] \in DOMAIN lookup
          THEN Cardinality(SetOf(lookup[group.student_ids[k]].liked) \cap gids) * likes_w
               - Cardinality(SetOf(lookup[group.student_ids[k]].disliked) \cap gids) * dislikes_w
          ELSE 0])

\* full_score() of simulated_annealing; the same sum is the from-scratch
\* rescore of optimize_with_restarts and calculate_total_score
full_score(project) ==
    LET lookup == _build_lookup(project)
    IN SumSeq([g \in DOMAIN project.groups |->
                  PeerScore(project.groups[g], lookup,
                            project.weights.likes_weight,
                            project.weights.dislikes_weight)])
       - calculate_constraint_penalty(project, lookup)

\* ------------------------------------------------------------------------
\* Constraint penalty deltas
\* ------------------------------------------------------------------------
\* one of the two loops of _constraint_penalty_delta_swap: the student
\* `incoming` enters `group`, the student `leaving` leaves it
SwapMaxDelta(incoming, leaving, group, lookup) ==
    SumSeq([c \in DOMAIN group.constraints |->
        LET constraint == group.constraints[c]
            char == constraint.characteristic
        IN IF /\ constraint.constraint_type = MAX
              /\ Truthy(constraint.value)
              /\ HasChar(incoming, char)
           THEN LET current == CountWithChar(group.student_ids, lookup, char)
                    leaving_n == IF HasChar(leaving, char) THEN 1 ELSE 0
                    after == current - leaving_n + 1
                    before_violation == Max2(0, current - constraint.value)
                    after_violation == Max2(0, after - constraint.value)
                IN (after_violation - before_violation) * 50
           ELSE 0])

_constraint_penalty_delta_swap(s1_id, g1, s2_id, g2, lookup) ==
    IF s1_id \notin DOMAIN lookup \/ s2_id \notin DOMAIN lookup THEN 0
    ELSE SwapMaxDelta(lookup[s1_id], lookup[s2_id], g2, lookup)
         + SwapMaxDelta(lookup[s2_id], lookup[s1_id], g1, lookup)

_constraint_penalty_delta_move(student_id, source, target, lookup) ==
    IF student_id \notin DOMAIN lookup THEN 0
    ELSE
    LET student == lookup[student_id]
        size_source == IF Len(source.student_ids) > source.max_size THEN 0 - 100 ELSE 0
        size_target == IF Len(target.student_ids) >= target.max_size THEN 100 ELSE 0
        target_terms ==
            SumSeq([c \in DOMAIN target.constraints |->
                LET constraint == target.constraints[c]
                    char == constraint.characteristic
                    current == CountWithChar(target.student_ids, lookup, char)
                IN IF constraint.constraint_type = MAX /\ Truthy(constraint.value)
                   THEN IF HasChar(student, char)
                        THEN (Max2(0, current + 1 - constraint.value)
                              - Max2(0, current - constraint.value)) * 50
                        ELSE 0
                   ELSE IF constraint.constraint_type = SOME
                   THEN IF current = 0 /\ HasChar(student, char) THEN 0 - 25 ELSE 0
                   ELSE 0])
        source_terms ==
            SumSeq([c \in DOMAIN source.constraints |->
                LET constraint == source.constraints[c]
                    char == constraint.characteristic
                IN IF /\ constraint.constraint_type = SOME
                      /\ HasChar(student, char)
                      /\ CountWithChar(source.student_ids, lookup, char) = 1
                   THEN 25 ELSE 0])
    IN size_source + size_target + target_terms + source_terms

\* ------------------------------------------------------------------------
\* Initial assignment
\* ------------------------------------------------------------------------
\* the outcomes of random.shuffle(list)
Shuffles(list) ==
    {[i \in DOMAIN list |-> list[p[i]]] : p \in Perms(DOMAIN list)}

\* [s for s in result.students if s.id not in pinned]
UnassignedPool(project) ==
    LET keep == {i \in DOMAIN project.students :
                    project.students[i].id \notin pinned_students(project)}
        RECURSIVE pick(_)
        pick(i) == IF i > Len(project.students) THEN <<>>
                   ELSE IF i \in keep THEN <<project.students[i]>> \o pick(i + 1)
                   ELSE pick(i + 1)
    IN pick(1)

\* variant: the groups keep their non-pinned members
ClearAssignments_keep_members(groups) == groups

\* "Clear assignments, keep pinned"
ClearAssignments(groups) ==
    [g \in DOMAIN groups |->
        [groups[g] EXCEPT !.student_ids =
            ListFilter(groups[g].student_ids, SetOf(groups[g].pinned_student_ids))]]

\* [s for s in unassigned if s.characteristics.get(char) is True]
RECURSIVE WithChar(_, _)
WithChar(list, char) ==
    IF list = <<>> THEN <<>>
    ELSE IF HasChar(Head(list), char) THEN <<Head(list)>> \o WithChar(Tail(list), char)
    ELSE WithChar(Tail(list), char)

\* Pass 1, inner loop: "for student in to_add"
RECURSIVE PassAllAdd(_, _, _)
PassAllAdd(st, g, to_add) ==
    IF to_add = <<>> THEN st
    ELSE IF Len(st.groups[g].student_ids) < st.groups[g].max_size
         THEN PassAllAdd(
                [groups |-> [st.groups EXCEPT ![g].student_ids = Append(@, Head(to_add).id)],
                 unassigned |-> ListRemove(st.unassigned, Head(to_add))],
                g, Tail(to_add))
         ELSE PassAllAdd(st, g, Tail(to_add))

\* Pass 1: constraint c of group g onward
RECURSIVE PassAll(_, _, _)
PassAll(st, g, c) ==
    IF g > Len(st.groups) THEN st
    ELSE IF c > Len(st.groups[g].constraints) THEN PassAll(st, g + 1, 1)
    ELSE IF st.groups[g].constraints[c].constraint_type = ALL
         THEN PassAll(PassAllAdd(st, g,
                         WithChar(st.unassigned, st.groups[g].constraints[c].characteristic)),
                      g, c + 1)
         ELSE PassAll(st, g, c + 1)

\* Pass 2: constraint c of group g onward
RECURSIVE PassSome(_, _, _, _)
PassSome(st, lookup, g, c) ==
    IF g > Len(st.groups) THEN st
    ELSE IF c > Len(st.groups[g].constraints) THEN PassSome(st, lookup, g + 1, 1)
    ELSE LET constraint == st.groups[g].constraints[c]
             char == constraint.characteristic
             already == CountWithChar(st.groups[g].student_ids, lookup, char)
             candidates == WithChar(st.unassigned, char)
         IN IF /\ constraint.constraint_type = SOME
               /\ already = 0
               /\ candidates # <<>>
               /\ Len(st.groups[g].student_ids) < st.groups[g].max_size
            THEN PassSome(
                   [groups |-> [st.groups EXCEPT ![g].student_ids = Append(@, Head(candidates).id)],
                    unassigned |-> ListRemove(st.unassigned, Head(candidates))],
                   lookup, g, c + 1)
            ELSE PassSome(st, lookup, g, c + 1)

\* Pass 3: may `student` be added to `group` (size and MAX caps)
Feasible(group, student, lookup) ==
    /\ Len(group.student_ids) < group.max_size
    /\ \A c \in DOMAIN group.constraints :
          LET constraint == group.constraints[c]
          IN ~ ( /\ constraint.constraint_type = MAX
                 /\ Truthy(constraint.value)
                 /\ HasChar(student, constraint.characteristic)
                 /\ CountWithChar(group.student_ids, lookup, constraint.characteristic)
                      >= constraint.value )

\* Pass 3 score of a group for a student, in hundredths
\* (likes_here - 2 * dislikes_here - len * 0.01)
GreedyScore(group, student) ==
    LET gids == SetOf(group.student_ids)
    IN 100 * Cardinality(SetOf(student.liked) \cap gids)
       - 200 * Cardinality(SetOf(student.disliked) \cap gids)
       - Len(group.student_ids)

\* Pass 3: index of the group the student is appended to
BestGroupIdx(groups, student, lookup) ==
    LET feasible == {i \in DOMAIN groups : Feasible(groups[i], student, lookup)}
    IN IF feasible # {}
       THEN CHOOSE i \in feasible :
               \A j \in feasible :
                  \/ GreedyScore(groups[i], student) > GreedyScore(groups[j], student)
                  \/ /\ GreedyScore(groups[i], student) = GreedyScore(groups[j], student)
                     /\ i <= j
       ELSE CHOOSE i \in DOMAIN groups :
               \A j \in DOMAIN groups :
                  \/ Len(groups[i].student_ids) < Len(groups[j].student_ids)
                  \/ /\ Len(groups[i].student_ids) = Len(groups[j].student_ids)
                     /\ i <= j

\* Pass 3: "for student in unassigned"
RECURSIVE PassGreedy(_, _, _)
PassGreedy(groups, todo, lookup) ==
    IF todo = <<>> THEN groups
    ELSE PassGreedy(
           [groups EXCEPT ![BestGroupIdx(groups, Head(todo), lookup)].student_ids =
               Append(@, Head(todo).id)],
           Tail(todo), lookup)

\* variant: the students left after the SOME pass are not placed
initial_assignment_without_greedy(project, shuffled) ==
    LET lookup == _build_lookup(project)
        cleared == [groups |-> ClearAssignments(project.groups), unassigned |-> shuffled]
        after_all == {PassAll(cleared, 1, 1)}
        after_some == {PassSome(st, lookup, 1, 1) : st \in after_all}
    IN CHOOSE result \in {[project EXCEPT !.groups = st.groups] : st \in after_some} : TRUE

\* initial_assignment(project) when random.shuffle leaves the pool in the
\* order `shuffled`; the value of the returned Project.  Each pass is applied
\* to the one result of the pass before it (singleton sets bind that result).
initial_assignment(project, shuffled) ==
    LET lookup == _build_lookup(project)
        cleared == [groups |-> ClearAssignments(project.groups), unassigned |-> shuffled]
        after_all == {PassAll(cleared, 1, 1)}
        after_some == {PassSome(st, lookup, 1, 1) : st \in after_all}
        after_greedy == {PassGreedy(st.groups, st.unassigned, lookup) : st \in after_some}
    IN CHOOSE result \in {[project EXCEPT !.groups = groups] : groups \in after_greedy} : TRUE

\* ------------------------------------------------------------------------
\* In-place neighbour generation
\* ------------------------------------------------------------------------
\* variant: pinned students are not filtered out
_get_movable_all(group) == group.student_ids

_get_movable(group) ==
    ListFilter(group.student_ids, SetOf(group.student_ids) \ SetOf(group.pinned_student_ids))

_apply_swap(groups, gi1, gi2, s1_id, s2_id) ==
    [g \in DOMAIN groups |->
        IF g = gi1
        THEN [groups[g] EXCEPT !.student_ids = Append(ListRemove(@, s1_id), s2_id)]
        ELSE IF g = gi2
        THEN [groups[g] EXCEPT !.student_ids = Append(ListRemove(@, s2_id), s1_id)]
        ELSE groups[g]]

\* variant: the student is appended to the target but not removed from the source
_apply_move_keep(groups, src_i, tgt_i, sid) ==
    [g \in DOMAIN groups |->
        IF g = tgt_i
        THEN [groups[g] EXCEPT !.student_ids = Append(@, sid)]
        ELSE groups[g]]

_apply_move(groups, src_i, tgt_i, sid) ==
    [g \in DOMAIN groups |->
        IF g = src_i
        THEN [groups[g] EXCEPT !.student_ids = ListRemove(@, sid)]
        ELSE IF g = tgt_i
        THEN [groups[g] EXCEPT !.student_ids = Append(@, sid)]
        ELSE groups[g]]

\* ------------------------------------------------------------------------
\* Smart move
\* ------------------------------------------------------------------------
\* tuple comparison of (score, group_idx, student_id)
TripleGreater(a, b) ==
    \/ a[1] > b[1]
    \/ a[1] = b[1] /\ a[2] > b[2]
    \/ a[1] = b[1] /\ a[2] = b[2] /\ a[3] > b[3]

\* tuple comparison of (score, group_idx)
PairGreater(a, b) ==
    \/ a[1] > b[1]
    \/ a[1] = b[1] /\ a[2] > b[2]

\* the (unhappiness, group_idx, student_id) candidates with unhappiness > 0
SmartCandidates(groups, lookup) ==
    {c \in UNION {
        {<<Cardinality(SetOf(lookup[sid].disliked) \cap SetOf(groups[i].student_ids))
             + Cardinality(SetOf(lookup[sid].liked) \ SetOf(groups[i].student_ids)),
           i, sid>> :
            sid \in (SetOf(groups[i].student_ids) \ SetOf(groups[i].pinned_student_ids))
                    \cap DOMAIN lookup} :
        i \in DOMAIN groups} : c[1] > 0}

\* the (likes_there - dislikes_there, j) targets of a student leaving src_i
SmartTargets(groups, student, src_i) ==
    {<<Cardinality(SetOf(student.liked) \cap SetOf(groups[j].student_ids))
         - Cardinality(SetOf(student.disliked) \cap SetOf(groups[j].student_ids)), j>> :
        j \in DOMAIN groups \ {src_i}}

\* the (src_idx, tgt_idx, student_id) results random.choice can produce;
\* the empty set stands for the result None
_pick_smart_move(groups, lookup) ==
    LET candidates == SmartCandidates(groups, lookup)
        ntop == Max2(1, Cardinality(candidates) \div 3)
        top == {c \in candidates :
                   Cardinality({d \in candidates : TripleGreater(d, c)}) < ntop}
        top_t(c) ==
            LET scored_targets == SmartTargets(groups, lookup[c[3]], c[2])
                nt == Max2(1, Cardinality(scored_targets) \div 2)
            IN {t \in scored_targets :
                   Cardinality({u \in scored_targets : PairGreater(u, t)}) < nt}
    IN UNION {{<<c[2], t[2], c[3]>> : t \in top_t(c)} : c \in top}

\* ------------------------------------------------------------------------
\* Heap of Project objects
\* ------------------------------------------------------------------------
\* the reference held by the caller of optimize_with_restarts
CallerRef == 0

\* a reference no live object has
FreshRef(live) ==
    CHOOSE n \in 0..Cardinality(live) : n \notin live /\ \A m \in 0..n : m = n \/ m \in live

\* variant: no copy is made, the same object is used
deepcopy_alias(ref, live) == ref

\* reference of the object deepcopy(ref) returns, while `live` are in use
deepcopy(ref, live) == FreshRef(live)

HeapPut(h, ref, value) ==
    [r \in DOMAIN h \cup {ref} |-> IF r = ref THEN value ELSE h[r]]

Collect(h, live) == [r \in live \cap DOMAIN h |-> h[r]]

\* ------------------------------------------------------------------------
\* Temperature arithmetic (fixed point, six decimals)
\* ------------------------------------------------------------------------
TempScale == 1000000

RateScale == 10000

\* temperature * rate, rate given in 1/RateScale
Cool(temperature, rate) ==
    (temperature \div RateScale) * rate + ((temperature % RateScale) * rate) \div RateScale

\* temperature = min(temperature * 4.0, initial_temp * 0.6)
Reheat(temperature, initial_temp_) ==
    Min2(temperature * 4, (initial_temp_ \div 10) * 6)

ReheatThreshold == 500

ProgressStride == 100

\* variant: a candidate that improves the score can be rejected too
AcceptOutcomes_any(score_delta_, temperature_) == {TRUE, FALSE}

\* the outcomes of "score_delta > 0 or random.random() < math.exp(score_delta / temperature)":
\* exp(0) = 1 exceeds every draw, exp(x) < 1 for x < 0 and is 0.0 below x = -745
AcceptOutcomes(score_delta_, temperature_) ==
    IF score_delta_ >= 0 THEN {TRUE}
    ELSE IF temperature_ > ((0 - score_delta_) * TempScale) \div 745 THEN {TRUE, FALSE}
    ELSE {FALSE}

\* variant: the snapshot is taken whenever the score differs from the best
IsNewBest_differs(current_score_, best_score_) == current_score_ # best_score_

\* "if current_score > best_score"
IsNewBest(current_score_, best_score_) == current_score_ > best_score_

\* variant: every restart keeps the current assignment
use_current_assignment_always(restart_) == restart_ >= 0

\* use_current_assignment=(restart == 0)
use_current_assignment(restart_) == restart_ = 0

\* "if score > overall_best_score"
IsOverallBest(score, overall_best_score_) == score > overall_best_score_

\* variant: the base is replaced after every restart from the middle one on
IsRebasePoint_onward(restart_, num_restarts_) == restart_ >= num_restarts_ \div 2

\* "restart == num_restarts // 2"
IsRebasePoint(restart_, num_restarts_) == restart_ = num_restarts_ \div 2

\* float('-inf')
NegInf == 0 - 1000000000

\* variant: an insertion that puts a later result before earlier equal scores
RECURSIVE InsertDesc_unstable(_, _, _)
InsertDesc_unstable(sorted, k, scores_) ==
    IF sorted = <<>> THEN <<k>>
    ELSE IF scores_[Head(sorted)] > scores_[k]
         THEN <<Head(sorted)>> \o InsertDesc_unstable(Tail(sorted), k, scores_)
         ELSE <<k>> \o sorted

\* sorted(zip(scores, all_results), key=lambda x: x[0], reverse=True):
\* the stable descending order of the indices 1..Len(scores)
RECURSIVE InsertDesc(_, _, _)
InsertDesc(sorted, k, scores_) ==
    IF sorted = <<>> THEN <<k>>
    ELSE IF scores_[Head(sorted)] >= scores_[k]
         THEN <<Head(sorted)>> \o InsertDesc(Tail(sorted), k, scores_)
         ELSE <<k>> \o sorted

RECURSIVE SortedDesc(_, _)
SortedDesc(n, scores_) ==
    IF n = 0 THEN <<>> ELSE InsertDesc(SortedDesc(n - 1, scores_), n, scores_)

\* ------------------------------------------------------------------------
\* State
\* ------------------------------------------------------------------------
VARIABLES
    heap,                \* reference -> Project value, for every live object
    input_project,       \* value of the caller's Project when the driver was called
    num_restarts, initial_temp, cooling_rate, min_temp, max_iterations,
    return_all_results,  \* arguments of optimize_with_restarts
    project,             \* optimize_with_restarts: the base Project (a reference)
    restart,             \* optimize_with_restarts: loop index
    overall_best, overall_best_score, all_results, scores,
    rebase_count,        \* number of executions of "project = deepcopy(overall_best)"
    returned,            \* the references returned by optimize_with_restarts
    current, best_state, \* simulated_annealing: references
    current_score, best_score, temperature, iterations_since_improvement,
    iteration,           \* simulated_annealing: loop index
    move_kind,           \* branch selected by rand in the last iteration
    accepted, score_delta, cp_delta,
    progress_calls, last_progress,  \* calls of the caller's progress_callback
    pc,
    canceled,            \* MainWindow: on_optimization_canceled has run
    invocation,          \* number of the caller's call of optimize_with_restarts
    first_outcome,       \* what the caller's first call returned and reported
    doc, loaded, saved,  \* load_project / save_project: document, Project, document
    subject,             \* argument of calculate_constraint_penalty / check_hard_constraints
    penalty, hard        \* their return values

args == <<num_restarts, initial_temp, cooling_rate, min_temp, max_iterations,
          return_all_results, input_project>>

driver_vars == <<project, restart, overall_best, overall_best_score, all_results,
                 scores, rebase_count, returned>>

sa_vars == <<current, best_state, current_score, best_score, temperature,
             iterations_since_improvement, iteration, move_kind, accepted,
             score_delta, cp_delta>>

env_vars == <<canceled, invocation, first_outcome, doc, loaded, saved, subject,
              penalty, hard>>

vars == <<heap, args, driver_vars, sa_vars, progress_calls, last_progress, pc, env_vars>>

\* the references the program holds, given the values of its variables
LiveRefs(project_, overall_best_, all_results_, returned_, current_, best_state_) ==
    ({CallerRef, project_, overall_best_, current_, best_state_}
        \cup SetOf(all_results_) \cup SetOf(returned_)) \ {None}

\* ------------------------------------------------------------------------
\* optimize_with_restarts: the call of simulated_annealing up to its loop
\* ------------------------------------------------------------------------
StartRestart ==
    /\ pc = "driver"
    /\ restart < num_restarts
    /\ \E shuffled \in (IF use_current_assignment(restart)
                        THEN {<<>>}
                        ELSE Shuffles(UnassignedPool(heap[project]))) :
       \E start \in {IF use_current_assignment(restart)
                     THEN heap[project]
                     ELSE initial_assignment(heap[project], shuffled)} :
       \E score \in {full_score(start)} :
          LET live == LiveRefs(project, overall_best, all_results, returned, None, None)
              cur == deepcopy(project, live)
              best == deepcopy(cur, live \cup {cur})
          IN /\ heap' = HeapPut(HeapPut(heap, cur, start), best, start)
             /\ current' = cur
             /\ best_state' = best
             /\ current_score' = score
             /\ best_score' = score
    /\ temperature' = initial_temp
    /\ iterations_since_improvement' = 0
    /\ iteration' = 0
    /\ move_kind' = "none"
    /\ accepted' = FALSE
    /\ score_delta' = 0
    /\ cp_delta' = 0
    /\ pc' = "sa"
    /\ UNCHANGED <<env_vars, args, driver_vars, progress_calls, last_progress>>

\* ------------------------------------------------------------------------
\* simulated_annealing: one iteration of the loop
\* ------------------------------------------------------------------------
\* variant: the loop runs one iteration more than max_iterations
LoopRuns_one_more == iteration <= max_iterations /\ temperature >= min_temp

\* "for iteration in range(max_iterations): if temperature < min_temp: break"
LoopRuns == iteration < max_iterations /\ temperature >= min_temp

\* "temperature *= cooling_rate; continue": no candidate could be generated
NoCandidate(kind) ==
    /\ temperature' = Cool(temperature, cooling_rate)
    /\ iteration' = iteration + 1
    /\ move_kind' = kind
    /\ accepted' = FALSE
    /\ score_delta' = 0
    /\ cp_delta' = 0
    /\ UNCHANGED <<env_vars, heap, args, driver_vars, current, best_state, current_score,
                   best_score, iterations_since_improvement, progress_calls,
                   last_progress, pc>>

\* acceptance test, in-place mutation, bookkeeping, cooling, reheating and
\* progress callback for a candidate that turns the groups into new_groups
Candidate(kind, new_groups, delta, cpd) ==
    /\ iteration' = iteration + 1
    /\ move_kind' = kind
    /\ score_delta' = delta
    /\ cp_delta' = cpd
    /\ \E accept \in AcceptOutcomes(delta, temperature) :
        LET score1 == IF accept THEN current_score + delta ELSE current_score
            h1 == IF accept
                  THEN HeapPut(heap, current, [heap[current] EXCEPT !.groups = new_groups])
                  ELSE heap
            improved == accept /\ IsNewBest(score1, best_score)
            live == LiveRefs(project, overall_best, all_results, returned, current, None)
            best == IF improved THEN deepcopy(current, live) ELSE best_state
            h2 == IF improved THEN HeapPut(h1, best, h1[current]) ELSE h1
            best1 == IF improved THEN score1 ELSE best_score
            stagnation == IF improved THEN 0 ELSE iterations_since_improvement + 1
            cooled == Cool(temperature, cooling_rate)
            temp1 == IF stagnation > ReheatThreshold THEN Reheat(cooled, initial_temp) ELSE cooled
        IN /\ accepted' = accept
           /\ current_score' = score1
           /\ best_score' = best1
           /\ iterations_since_improvement' =
                 IF stagnation > ReheatThreshold THEN 0 ELSE stagnation
           /\ temperature' = temp1
           /\ best_state' = best
           /\ IF iteration % ProgressStride = 0
              THEN /\ progress_calls' = progress_calls + 1
                   /\ last_progress' = <<restart * max_iterations + iteration, temp1,
                                         best1, restart + 1>>
              ELSE UNCHANGED <<progress_calls, last_progress>>
           /\ heap' = Collect(h2, live \cup {best})
    /\ UNCHANGED <<env_vars, args, driver_vars, current, pc>>

\* the groups with at least one movable student
MovableGroups(groups) == {i \in DOMAIN groups : _get_movable(groups[i]) # <<>>}

\* rand < 0.45
SwapStep ==
    /\ pc = "sa"
    /\ LoopRuns
    /\ \E groups \in {heap[current].groups}, lookup \in {_build_lookup(heap[current])},
          likes_w \in {heap[current].weights.likes_weight},
          dislikes_w \in {heap[current].weights.dislikes_weight} :
          IF Cardinality(MovableGroups(groups)) < 2
          THEN NoCandidate("swap")
          ELSE \E gi1, gi2 \in MovableGroups(groups) :
                 /\ gi1 # gi2
                 /\ \E s1_id \in SetOf(_get_movable(groups[gi1])),
                       s2_id \in SetOf(_get_movable(groups[gi2])) :
                      \E g1_ids \in {SetOf(groups[gi1].student_ids) \ {s1_id}},
                         g2_ids \in {SetOf(groups[gi2].student_ids) \ {s2_id}} :
                      \E d1 \in {_student_delta(s1_id, g1_ids, g2_ids, lookup, likes_w, dislikes_w)},
                         d2 \in {_student_delta(s2_id, g2_ids, g1_ids, lookup, likes_w, dislikes_w)},
                         cpd \in {_constraint_penalty_delta_swap(
                                     s1_id, groups[gi1], s2_id, groups[gi2], lookup)} :
                         Candidate("swap", _apply_swap(groups, gi1, gi2, s1_id, s2_id),
                                   d1 + d2 - cpd, cpd)

\* score change of moving sid from src_i to tgt_i, and its penalty part
MoveDeltas(groups, lookup, likes_w, dislikes_w, src_i, tgt_i, sid) ==
    LET src_ids == SetOf(groups[src_i].student_ids) \ {sid}
        tgt_ids == SetOf(groups[tgt_i].student_ids)
        d == _student_delta(sid, src_ids, tgt_ids, lookup, likes_w, dislikes_w)
        cpd == _constraint_penalty_delta_move(sid, groups[src_i], groups[tgt_i], lookup)
    IN <<d - cpd, cpd>>

\* 0.45 <= rand < 0.75
RandomMoveStep ==
    /\ pc = "sa"
    /\ LoopRuns
    /\ \E groups \in {heap[current].groups}, lookup \in {_build_lookup(heap[current])},
          likes_w \in {heap[current].weights.likes_weight},
          dislikes_w \in {heap[current].weights.dislikes_weight} :
          IF MovableGroups(groups) = {} \/ Len(groups) < 2
          THEN NoCandidate("move")
          ELSE \E src_i \in MovableGroups(groups) :
               \E sid \in SetOf(_get_movable(groups[src_i])) :
               \E tgt_i \in DOMAIN groups \ {src_i} :
               \E ds \in {MoveDeltas(groups, lookup, likes_w, dislikes_w, src_i, tgt_i, sid)} :
                  Candidate("move", _apply_move(groups, src_i, tgt_i, sid), ds[1], ds[2])

\* rand >= 0.75
SmartMoveStep ==
    /\ pc = "sa"
    /\ LoopRuns
    /\ \E groups \in {heap[current].groups}, lookup \in {_build_lookup(heap[current])},
          likes_w \in {heap[current].weights.likes_weight},
          dislikes_w \in {heap[current].weights.dislikes_weight} :
          IF _pick_smart_move(groups, lookup) = {}
          THEN NoCandidate("smart")
          ELSE \E m \in _pick_smart_move(groups, lookup) :
               \E ds \in {MoveDeltas(groups, lookup, likes_w, dislikes_w, m[1], m[2], m[3])} :
                  Candidate("smart", _apply_move(groups, m[1], m[2], m[3]), ds[1], ds[2])

\* ------------------------------------------------------------------------
\* optimize_with_restarts: after simulated_annealing returned best_state
\* ------------------------------------------------------------------------
FinishRestart ==
    /\ pc = "sa"
    /\ ~ LoopRuns
    /\ \E score \in {full_score(heap[best_state])} :
       \E best1 \in {IF IsOverallBest(score, overall_best_score)
                     THEN best_state ELSE overall_best} :
       \E rebase \in {best1 # None /\ IsRebasePoint(restart, num_restarts)} :
       LET result == best_state
           results1 == Append(all_results, result)
           live == LiveRefs(project, best1, results1, returned, None, None)
           base1 == IF rebase THEN deepcopy(best1, live) ELSE project
           h1 == IF rebase THEN HeapPut(heap, base1, heap[best1]) ELSE heap
       IN /\ scores' = Append(scores, score)
          /\ all_results' = results1
          /\ overall_best' = best1
          /\ overall_best_score' =
                IF IsOverallBest(score, overall_best_score) THEN score ELSE overall_best_score
          /\ project' = base1
          /\ rebase_count' = IF rebase THEN rebase_count + 1 ELSE rebase_count
          /\ heap' = Collect(h1, LiveRefs(base1, best1, results1, returned, None, None))
    /\ restart' = restart + 1
    /\ current' = None
    /\ best_state' = None
    /\ current_score' = 0
    /\ best_score' = 0
    /\ temperature' = 0
    /\ iterations_since_improvement' = 0
    /\ iteration' = 0
    /\ move_kind' = "none"
    /\ accepted' = FALSE
    /\ score_delta' = 0
    /\ cp_delta' = 0
    /\ pc' = "driver"
    /\ UNCHANGED <<env_vars, args, returned, progress_calls, last_progress>>

\* "return [p for _, p in paired]" or "return overall_best"
Return ==
    /\ pc = "driver"
    /\ restart >= num_restarts
    /\ returned' = IF return_all_results
                   THEN [k \in DOMAIN all_results |->
                            all_results[SortedDesc(Len(scores), scores)[k]]]
                   ELSE <<overall_best>>
    /\ pc' = "done"
    /\ UNCHANGED <<env_vars, heap, args, project, restart, overall_best, overall_best_score,
                   all_results, scores, rebase_count, sa_vars, progress_calls,
                   last_progress>>

Next ==
    \/ StartRestart
    \/ SwapStep
    \/ RandomMoveStep
    \/ SmartMoveStep
    \/ FinishRestart
    \/ Return

\* ------------------------------------------------------------------------
\* MainWindow: the cancel button of the progress dialog
\* ------------------------------------------------------------------------
\* "if self.optimization_thread and self.optimization_thread.isRunning():
\*      self.optimization_thread.terminate(); self.optimization_thread.wait()":
\* the thread that runs optimize_with_restarts is killed where it stands
on_optimization_canceled ==
    /\ pc \in {"driver", "sa"}
    /\ ~ canceled
    /\ canceled' = TRUE
    /\ pc' = "terminated"
    /\ UNCHANGED <<heap, args, driver_vars, sa_vars, progress_calls, last_progress,
                   invocation, first_outcome, doc, loaded, saved, subject, penalty, hard>>

NextCancel ==
    \/ Next
    \/ on_optimization_canceled

\* ------------------------------------------------------------------------
\* Projects handed to the driver
\* ------------------------------------------------------------------------
StudentIds(n) == 1..n

GroupNames == <<"A", "B">>

NextId(n, i) == (i % n) + 1

PrevId(n, i) == ((i + n - 2) % n) + 1

\* preference profiles: liked and disliked lists of student i among n students
\* ("loose": a student lists itself, an id twice and the id n + 1 of no student)
Liked(profile, n, i) ==
    CASE profile = "ring" -> <<NextId(n, i)>>
      [] profile = "mixed" -> IF i % 2 = 0 THEN <<>>
                              ELSE IF i < n THEN <<i + 1>>
                              ELSE IF i > 1 THEN <<1>> ELSE <<>>
      [] profile = "loose" -> <<i, NextId(n, i), NextId(n, i), n + 1>>
      [] OTHER -> <<>>

Disliked(profile, n, i) ==
    CASE profile = "ring" -> IF n > 2 THEN <<PrevId(n, i)>> ELSE <<>>
      [] profile = "mixed" -> IF i % 2 = 0 THEN <<i - 1>> ELSE <<>>
      [] profile = "loose" -> IF i = 1 THEN <<n + 1, PrevId(n, i), i, PrevId(n, i)>>
                              ELSE <<>>
      [] OTHER -> <<>>

\* the ids in `members`, ascending, as a list
RECURSIVE Ascending(_)
Ascending(members) ==
    IF members = {} THEN <<>>
    ELSE LET m == CHOOSE x \in members : \A y \in members : x <= y
         IN <<m>> \o Ascending(members \ {m})

\* the ids listed in some group of p
AssignedIn(p) == UNION {SetOf(p.groups[g].student_ids) : g \in DOMAIN p.groups}

\* a Project of n students: holders have X = True, place[i] is the group of student i
\* (0: unassigned), pins are the pinned students, cons[g] the constraints and
\* sizes[g] the max_size of group g, one group per entry of sizes
MkProject(n, holders, profile, cons, sizes, place, pins) ==
    [students |-> [i \in StudentIds(n) |->
                     [id |-> i,
                      characteristics |-> [c \in {"X"} |-> i \in holders],
                      liked |-> Liked(profile, n, i),
                      disliked |-> Disliked(profile, n, i)]],
     groups |-> [g \in DOMAIN sizes |->
                     [name |-> GroupNames[g],
                      max_size |-> sizes[g],
                      constraints |-> cons[g],
                      student_ids |-> Ascending({i \in StudentIds(n) : place[i] = g}),
                      pinned_student_ids |->
                          Ascending({i \in pins : place[i] = g})]],
     weights |-> [likes_weight |-> 1, dislikes_weight |-> 2]]

Con(type, value) == [characteristic |-> "X", constraint_type |-> type, value |-> value]

\* the constraint lists of the two groups
ConstraintConfigs ==
    { <<<<>>, <<>>>>,
      <<<<Con(ALL, None)>>, <<Con(MAX, 1)>>>>,
      <<<<Con(SOME, None)>>, <<Con(MAX, 1), Con(SOME, None)>>>> }

\* SA parameters: the defaults of simulated_annealing
DefaultParams ==
    [initial_temp |-> 150 * TempScale, cooling_rate |-> 9997, min_temp |-> 10000]

\* SA parameters of a run that stops on temperature < min_temp after one iteration
ShortParams ==
    [initial_temp |-> 150 * TempScale, cooling_rate |-> 9997, min_temp |-> 149960000]

\* the state at the call of optimize_with_restarts(p, n, ...)
InitWith(p, n, params, iters, all) ==
    /\ heap = [r \in {CallerRef} |-> p]
    /\ input_project = p
    /\ num_restarts = n
    /\ initial_temp = params.initial_temp
    /\ cooling_rate = params.cooling_rate
    /\ min_temp = params.min_temp
    /\ max_iterations = iters
    /\ return_all_results = all
    /\ project = CallerRef
    /\ restart = 0
    /\ overall_best = None
    /\ overall_best_score = NegInf
    /\ all_results = <<>>
    /\ scores = <<>>
    /\ rebase_count = 0
    /\ returned = <<>>
    /\ current = None
    /\ best_state = None
    /\ current_score = 0
    /\ best_score = 0
    /\ temperature = 0
    /\ iterations_since_improvement = 0
    /\ iteration = 0
    /\ move_kind = "none"
    /\ accepted = FALSE
    /\ score_delta = 0
    /\ cp_delta = 0
    /\ progress_calls = 0
    /\ last_progress = <<>>
    /\ pc = "driver"
    /\ canceled = FALSE
    /\ invocation = 1
    /\ first_outcome = <<>>
    /\ doc = <<>>
    /\ loaded = <<>>
    /\ saved = <<>>
    /\ subject = <<>>
    /\ penalty = None
    /\ hard = <<>>

\* valid projects for the driver: nobody placed; the last student in B and
\* the others unplaced; everybody placed (the last student in B, the others
\* in A) and student 1 pinned in A
DriverProjects ==
    {MkProject(NumStudents, {1, 2}, profile, cons, <<2, 2>>, pp[1], pp[2]) :
        profile \in {"ring", "mixed"},
        cons \in ConstraintConfigs,
        pp \in {<<[i \in StudentIds(NumStudents) |-> 0], {}>>,
                <<[i \in StudentIds(NumStudents) |-> IF i = NumStudents THEN 2 ELSE 0], {}>>,
                <<[i \in StudentIds(NumStudents) |-> IF i = NumStudents THEN 2 ELSE 1], {1}>>}}

\* a call of optimize_with_restarts; return_all_results is read by the final
\* return statement alone, and the calls with the most restarts are the ones
\* that return every restart's result
Init ==
    \E p \in DriverProjects, n \in 1..MaxRestarts, all \in BOOLEAN :
        /\ all \/ n < MaxRestarts
        /\ InitWith(p, n, DefaultParams, MaxIterations, all)

Spec == Init /\ [][Next]_vars

\* the driver under a scheduler that keeps its thread running, on projects
\* with everybody placed and student 1 pinned, for runs that stop on the
\* iteration cap and runs that stop on temperature < min_temp before the cap
InitFair ==
    \E cons \in ConstraintConfigs, n \in 1..MaxRestarts, all \in BOOLEAN,
       run \in {<<DefaultParams, MaxIterations>>, <<ShortParams, MaxIterations + 1>>} :
        InitWith(MkProject(NumStudents, {1, 2}, "mixed", cons, <<2, 2>>,
                           [i \in StudentIds(NumStudents) |->
                               IF i = NumStudents THEN 2 ELSE 1], {1}),
                 n, run[1], run[2], all)

SpecFair == InitFair /\ [][Next]_vars /\ WF_vars(Next)

\* what a call handed to its caller: the returned Projects, the number of
\* progress events and the last of them
Outcome ==
    <<[k \in DOMAIN returned |-> heap[returned[k]]], progress_calls, last_progress>>

\* the caller calls optimize_with_restarts a second time with the same Project
\* and the same parameters, in the same process
InvokeAgain ==
    /\ pc = "done"
    /\ invocation = 1
    /\ invocation' = 2
    /\ first_outcome' = Outcome
    /\ heap' = [r \in {CallerRef} |-> heap[CallerRef]]
    /\ project' = CallerRef
    /\ restart' = 0
    /\ overall_best' = None
    /\ overall_best_score' = NegInf
    /\ all_results' = <<>>
    /\ scores' = <<>>
    /\ rebase_count' = 0
    /\ returned' = <<>>
    /\ progress_calls' = 0
    /\ last_progress' = <<>>
    /\ pc' = "driver"
    /\ UNCHANGED <<args, sa_vars, canceled, doc, loaded, saved, subject, penalty, hard>>

NextTwice ==
    \/ Next
    \/ InvokeAgain

\* two calls in a row
SpecTwice == Init /\ [][NextTwice]_vars

\* the driver in its thread, with the user free to cancel
SpecCancel == Init /\ [][NextCancel]_vars

\* ------------------------------------------------------------------------
\* Single annealing steps on a wide family of projects
\* ------------------------------------------------------------------------
StepConstraintConfigs ==
    { <<<<>>, <<>>>>,
      <<<<Con(ALL, None)>>, <<>>>>,
      <<<<Con(SOME, None)>>, <<>>>>,
      <<<<Con(MAX, 1)>>, <<>>>>,
      <<<<Con(MAX, 1)>>, <<Con(SOME, None)>>>>,
      <<<<Con(ALL, None)>>, <<Con(MAX, 1)>>>> }

\* valid projects: any placement, at most one pinned student, pinned in its group
StepProjects ==
    {MkProject(NumStepStudents, holders, "ring", cons, <<1, 2>>, place, pins) :
        holders \in SUBSET StudentIds(NumStepStudents),
        cons \in StepConstraintConfigs,
        place \in [StudentIds(NumStepStudents) -> 0..2],
        pins \in {{}} \cup {{i} : i \in StudentIds(NumStepStudents)}}

\* one restart whose run stops on temperature < min_temp after one iteration
InitStep ==
    \E p \in {q \in StepProjects :
                 \A i \in pinned_students(q) :
                    \E g \in DOMAIN q.groups :
                       /\ i \in SetOf(q.groups[g].student_ids)
                       /\ i \in SetOf(q.groups[g].pinned_student_ids)} :
        InitWith(p, 1, ShortParams, MaxIterations, FALSE)

SpecStep == InitStep /\ [][Next]_vars

\* valid projects whose preference lists hold the student itself, an id twice
\* and an id of no student, next to projects with plain lists
PeerProjects ==
    {MkProject(NumStepStudents, {1}, profile, cons, <<1, 2>>, place, pins) :
        profile \in {"ring", "loose"},
        cons \in {<<<<>>, <<>>>>, <<<<Con(MAX, 1)>>, <<Con(SOME, None)>>>>},
        place \in [StudentIds(NumStepStudents) -> 0..2],
        pins \in {{}, {1}}}

\* one restart of one iteration from the caller's assignment
InitPeer ==
    \E p \in PeerProjects : InitWith(p, 1, ShortParams, MaxIterations, FALSE)

SpecPeer == InitPeer /\ [][Next]_vars

\* ------------------------------------------------------------------------
\* The temperature schedule of one run of simulated_annealing: its loop
\* restricted to temperature, iteration and iterations_since_improvement
\* ------------------------------------------------------------------------
\* "temperature = initial_temp", "iterations_since_improvement = 0"
EnterRun ==
    /\ pc = "driver"
    /\ pc' = "sa"
    /\ temperature' = initial_temp
    /\ iterations_since_improvement' = 0
    /\ iteration' = 0
    /\ UNCHANGED <<env_vars, heap, args, driver_vars, current, best_state, current_score,
                   best_score, move_kind, accepted, score_delta, cp_delta,
                   progress_calls, last_progress>>

\* an iteration that ends in "temperature *= cooling_rate; continue"
SkippedIteration ==
    /\ pc = "sa"
    /\ LoopRuns
    /\ temperature' = Cool(temperature, cooling_rate)
    /\ iteration' = iteration + 1
    /\ accepted' = FALSE
    /\ score_delta' = 0
    /\ UNCHANGED <<env_vars, heap, args, driver_vars, current, best_state, current_score,
                   best_score, iterations_since_improvement, move_kind, cp_delta,
                   progress_calls, last_progress, pc>>

\* an iteration whose candidate is accepted and is a new best
ImprovingIteration ==
    /\ pc = "sa"
    /\ LoopRuns
    /\ temperature' = Cool(temperature, cooling_rate)
    /\ iterations_since_improvement' = 0
    /\ iteration' = iteration + 1
    /\ accepted' = TRUE
    /\ score_delta' = 1
    /\ UNCHANGED <<env_vars, heap, args, driver_vars, current, best_state, current_score,
                   best_score, move_kind, cp_delta, progress_calls, last_progress, pc>>

\* an iteration whose candidate is rejected: stagnation grows, the temperature
\* is cooled and, past ReheatThreshold, reheated
StagnantIteration ==
    /\ pc = "sa"
    /\ LoopRuns
    /\ LET stagnation == iterations_since_improvement + 1
           cooled == Cool(temperature, cooling_rate)
       IN /\ temperature' =
                IF stagnation > ReheatThreshold THEN Reheat(cooled, initial_temp) ELSE cooled
          /\ iterations_since_improvement' =
                IF stagnation > ReheatThreshold THEN 0 ELSE stagnation
    /\ iteration' = iteration + 1
    /\ accepted' = FALSE
    /\ score_delta' = 0 - 1
    /\ UNCHANGED <<env_vars, heap, args, driver_vars, current, best_state, current_score,
                   best_score, move_kind, cp_delta, progress_calls, last_progress, pc>>

NextSchedule ==
    \/ EnterRun
    \/ SkippedIteration
    \/ ImprovingIteration
    \/ StagnantIteration

\* a run with the default parameters, long enough for a reheat
InitSchedule ==
    \E cons \in ConstraintConfigs :
        InitWith(MkProject(NumStudents, {1, 2}, "ring", cons, <<2, 2>>,
                           [i \in StudentIds(NumStudents) |-> 0], {}),
                 1, DefaultParams, ReheatThreshold + MaxIterations, FALSE)

SpecSchedule == InitSchedule /\ [][NextSchedule]_vars

\* ------------------------------------------------------------------------
\* Projects with an empty search space
\* ------------------------------------------------------------------------
\* no student that is not pinned, or fewer than two groups
EmptySearchSpace(p) ==
    \/ {p.students[i].id : i \in DOMAIN p.students} \subseteq pinned_students(p)
    \/ Len(p.groups) < 2

\* every student pinned in one of two groups; one group, with every placement
\* and student 1 pinned or not (MainWindow.run_optimization refuses to start
\* without a group)
EmptyProjects ==
    {MkProject(NumStudents, {1}, "ring", cons, <<2, 2>>, place, StudentIds(NumStudents)) :
        cons \in ConstraintConfigs,
        place \in [StudentIds(NumStudents) -> 1..2]}
    \cup
    {MkProject(NumStudents, {1}, "ring", <<cons[2]>>, <<2>>, place, pins) :
        cons \in ConstraintConfigs,
        place \in [StudentIds(NumStudents) -> 0..1],
        pins \in {{}, {1}}}

InitEmpty ==
    \E p \in EmptyProjects, n \in 1..MaxRestarts, all \in BOOLEAN :
        /\ EmptySearchSpace(p)
        /\ InitWith(p, n, DefaultParams, MaxIterations, all)

SpecEmpty == InitEmpty /\ [][Next]_vars

\* ------------------------------------------------------------------------
\* Projects that break the preconditions of the driver
\* ------------------------------------------------------------------------
\* duplicate student ids, a pinned id that is not in its group's student_ids,
\* or a student id in more than one group
InvalidProject(p) ==
    \/ \E i, j \in DOMAIN p.students : i # j /\ p.students[i].id = p.students[j].id
    \/ \E g \in DOMAIN p.groups :
          ~ (SetOf(p.groups[g].pinned_student_ids) \subseteq SetOf(p.groups[g].student_ids))
    \/ \E g, h \in DOMAIN p.groups :
          g # h /\ SetOf(p.groups[g].student_ids) \cap SetOf(p.groups[h].student_ids) # {}

\* a valid project made invalid in one way: student 1 of group A also listed
\* in B; student 1 pinned in A without being a member of A; the second
\* student record carrying id 1
InvalidProjects ==
    LET valid == {MkProject(NumStepStudents, holders, "ring", cons, <<2, 2>>, place, {}) :
                     holders \in {{1}, {1, 2}},
                     cons \in StepConstraintConfigs,
                     place \in [StudentIds(NumStepStudents) -> 0..2]}
    IN {[q EXCEPT !.groups[2].student_ids = Append(@, 1)] :
           q \in {v \in valid : 1 \in SetOf(v.groups[1].student_ids)}}
       \cup
       {[q EXCEPT !.groups[1].pinned_student_ids = <<1>>] :
           q \in {v \in valid : 1 \notin SetOf(v.groups[1].student_ids)}}
       \cup
       {[q EXCEPT !.students[2].id = 1] :
           q \in {v \in valid : 2 \notin AssignedIn(v)}}

\* one restart of one iteration on an invalid project
InitInvalid ==
    \E p \in InvalidProjects :
        /\ InvalidProject(p)
        /\ InitWith(p, 1, ShortParams, MaxIterations, FALSE)

SpecInvalid == InitInvalid /\ [][Next]_vars

\* ------------------------------------------------------------------------
\* Persistence: Project.from_dict / Project.to_dict, load_project / save_project
\* ------------------------------------------------------------------------
\* a JSON object is a function from its keys; {} has no key
EmptyDict == [k \in {} |-> 0]

\* data.get(key, default)
Get(data, key, default) == IF key \in DOMAIN data THEN data[key] ELSE default

Constraint_from_dict(data) ==
    [characteristic |-> data["characteristic"],
     constraint_type |-> data["constraint_type"],
     value |-> Get(data, "value", None)]

Constraint_to_dict(self) ==
    [characteristic |-> self.characteristic,
     constraint_type |-> self.constraint_type,
     value |-> self.value]

Student_from_dict(data) ==
    [id |-> data["id"],
     name |-> data["name"],
     characteristics |-> Get(data, "characteristics", EmptyDict),
     liked |-> Get(data, "liked", <<>>),
     disliked |-> Get(data, "disliked", <<>>)]

Student_to_dict(self) ==
    [id |-> self.id,
     name |-> self.name,
     characteristics |-> self.characteristics,
     liked |-> self.liked,
     disliked |-> self.disliked]

Group_from_dict(data) ==
    LET cs == Get(data, "constraints", <<>>)
    IN [name |-> data["name"],
        max_size |-> data["max_size"],
        constraints |-> [c \in DOMAIN cs |-> Constraint_from_dict(cs[c])],
        student_ids |-> Get(data, "student_ids", <<>>),
        pinned_student_ids |-> Get(data, "pinned_student_ids", <<>>)]

Group_to_dict(self) ==
    [name |-> self.name,
     max_size |-> self.max_size,
     constraints |-> [c \in DOMAIN self.constraints |->
                         Constraint_to_dict(self.constraints[c])],
     student_ids |-> self.student_ids,
     pinned_student_ids |-> self.pinned_student_ids]

ColumnMapping_from_dict(data) ==
    [id_column |-> Get(data, "id_column", ""),
     name_column |-> Get(data, "name_column", ""),
     firstname_column |-> Get(data, "firstname_column", ""),
     lastname_column |-> Get(data, "lastname_column", ""),
     use_separate_name_columns |-> Get(data, "use_separate_name_columns", FALSE),
     liked_column |-> Get(data, "liked_column", ""),
     disliked_column |-> Get(data, "disliked_column", ""),
     characteristic_columns |-> Get(data, "characteristic_columns", EmptyDict)]

ColumnMapping_to_dict(self) ==
    [id_column |-> self.id_column,
     name_column |-> self.name_column,
     firstname_column |-> self.firstname_column,
     lastname_column |-> self.lastname_column,
     use_separate_name_columns |-> self.use_separate_name_columns,
     liked_column |-> self.liked_column,
     disliked_column |-> self.disliked_column,
     characteristic_columns |-> self.characteristic_columns]

\* the defaults 1.0 and 2.0 of likes_weight and dislikes_weight
Weights_from_dict(data) ==
    [likes_weight |-> Get(data, "likes_weight", 1),
     dislikes_weight |-> Get(data, "dislikes_weight", 2),
     characteristic_weights |-> Get(data, "characteristic_weights", EmptyDict)]

Weights_to_dict(self) ==
    [likes_weight |-> self.likes_weight,
     dislikes_weight |-> self.dislikes_weight,
     characteristic_weights |-> self.characteristic_weights]

Project_from_dict(data) ==
    LET ss == Get(data, "students", <<>>)
        gs == Get(data, "groups", <<>>)
    IN [excel_path |-> Get(data, "excel_path", ""),
        column_mapping |-> ColumnMapping_from_dict(Get(data, "column_mapping", EmptyDict)),
        students |-> [i \in DOMAIN ss |-> Student_from_dict(ss[i])],
        groups |-> [g \in DOMAIN gs |-> Group_from_dict(gs[g])],
        weights |-> Weights_from_dict(Get(data, "weights", EmptyDict))]

Project_to_dict(self) ==
    [excel_path |-> self.excel_path,
     column_mapping |-> ColumnMapping_to_dict(self.column_mapping),
     students |-> [i \in DOMAIN self.students |-> Student_to_dict(self.students[i])],
     groups |-> [g \in DOMAIN self.groups |-> Group_to_dict(self.groups[g])],
     weights |-> Weights_to_dict(self.weights)]

\* load_project(path): the document of the file becomes a Project
load_project ==
    /\ pc = "file"
    /\ loaded' = Project_from_dict(doc)
    /\ pc' = "loaded"
    /\ UNCHANGED <<heap, args, driver_vars, sa_vars, progress_calls, last_progress,
                   canceled, invocation, first_outcome, doc, saved, subject, penalty, hard>>

\* save_project(project, path): the document json.dump writes
save_project ==
    /\ pc = "loaded"
    /\ saved' = Project_to_dict(loaded)
    /\ pc' = "saved"
    /\ UNCHANGED <<heap, args, driver_vars, sa_vars, progress_calls, last_progress,
                   canceled, invocation, first_outcome, doc, loaded, subject, penalty, hard>>

NextFile == load_project \/ save_project

\* the keys from_dict reads with data.get: a document may leave them out
OptionalKeys ==
    {"excel_path", "column_mapping", "characteristics", "liked", "disliked",
     "constraints", "student_ids", "pinned_student_ids", "value",
     "likes_weight", "dislikes_weight", "characteristic_weights"}

\* the object without the keys in `absent`
Without(object, absent) == [k \in DOMAIN object \ absent |-> object[k]]

\* a persisted document of n students and two groups in which the optional
\* keys in `absent` are left out wherever they could appear; characteristic
\* values are a boolean and a number
MkDocument(n, absent) ==
    Without(
      [excel_path |-> "students.xlsx",
       column_mapping |-> [id_column |-> "A", name_column |-> "B",
                           firstname_column |-> "", lastname_column |-> "",
                           use_separate_name_columns |-> FALSE,
                           liked_column |-> "C", disliked_column |-> "D",
                           characteristic_columns |-> [X |-> "E"]],
       students |-> [i \in StudentIds(n) |->
                       Without([id |-> i,
                                name |-> "student",
                                characteristics |-> [X |-> (i = 1), Y |-> i],
                                liked |-> IF n > 1 THEN <<NextId(n, i)>> ELSE <<>>,
                                disliked |-> <<>>], absent)],
       groups |-> [g \in DOMAIN GroupNames |->
                     Without([name |-> GroupNames[g],
                              max_size |-> n,
                              constraints |->
                                  IF g = 1
                                  THEN <<Without(Con(MAX, 1), absent),
                                         Without(Con(SOME, None), absent)>>
                                  ELSE <<>>,
                              student_ids |-> IF g = 1 THEN <<1>> ELSE <<>>,
                              pinned_student_ids |-> IF g = 1 THEN <<1>> ELSE <<>>],
                             absent)],
       weights |-> Without([likes_weight |-> 3,
                            dislikes_weight |-> 4,
                            characteristic_weights |-> [X |-> 1]], absent)],
      absent)

Documents == {MkDocument(NumStudents, absent) : absent \in SUBSET OptionalKeys}

\* the state before the driver has been called
DriverIdle ==
    /\ heap = EmptyDict
    /\ input_project = <<>>
    /\ num_restarts = 0
    /\ initial_temp = 0
    /\ cooling_rate = 0
    /\ min_temp = 0
    /\ max_iterations = 0
    /\ return_all_results = FALSE
    /\ project = None
    /\ restart = 0
    /\ overall_best = None
    /\ overall_best_score = NegInf
    /\ all_results = <<>>
    /\ scores = <<>>
    /\ rebase_count = 0
    /\ returned = <<>>
    /\ current = None
    /\ best_state = None
    /\ current_score = 0
    /\ best_score = 0
    /\ temperature = 0
    /\ iterations_since_improvement = 0
    /\ iteration = 0
    /\ move_kind = "none"
    /\ accepted = FALSE
    /\ score_delta = 0
    /\ cp_delta = 0
    /\ progress_calls = 0
    /\ last_progress = <<>>
    /\ canceled = FALSE
    /\ invocation = 1
    /\ first_outcome = <<>>

\* a project file on disk, not yet opened
InitFile ==
    /\ DriverIdle
    /\ pc = "file"
    /\ doc \in Documents
    /\ loaded = <<>>
    /\ saved = <<>>
    /\ subject = <<>>
    /\ penalty = None
    /\ hard = <<>>

SpecFile == InitFile /\ [][NextFile]_vars

\* ------------------------------------------------------------------------
\* Python float (binary64) arithmetic of the scores
\* ------------------------------------------------------------------------
\* A float is a sign and a magnitude counted in units of 2^-56, held in three
\* limbs of 27 bits, most significant first.  Every value that occurs is 0 or
\* a multiple of 2^-56 below 2^24, so that the 53-bit rounding of binary64 is
\* computed exactly.
Limb == 2^27

\* the magnitude nearest to l2 * Limb^2 + l1 * Limb + l0 + f that has at most
\* 53 significant bits, ties to even; frac tells the fraction f of a unit left
\* out of the limbs: 0 (none), 1 (below a half), 2 (a half), 3 (above a half)
Nearest(l2, l1, l0, frac) ==
    LET carry(m2, m1, m0) ==
            LET t1 == m1 + (m0 \div Limb)
            IN <<m2 + (t1 \div Limb), t1 % Limb, m0 % Limb>>
        RECURSIVE bits(_)
        bits(x) == IF x = 0 THEN 0 ELSE 1 + bits(x \div 2)
        a == carry(l2, l1, l0)
        len == IF a[1] > 0 THEN 54 + bits(a[1])
               ELSE IF a[2] > 0 THEN 27 + bits(a[2])
               ELSE bits(a[3])
        drop == len - 53
        unit == IF drop > 0 THEN 2^drop ELSE 1
        q == a[3] \div unit
        r == a[3] % unit
        odd == IF drop < 27 THEN q % 2 = 1 ELSE a[2] % 2 = 1
        up == IF drop > 0
              THEN 2 * r > unit \/ (2 * r = unit /\ (frac > 0 \/ odd))
              ELSE frac = 3 \/ (frac = 2 /\ odd)
    IN carry(a[1], a[2], q * unit + (IF up THEN unit ELSE 0))

\* a float of the given sign and magnitude (0.0 and -0.0 compare equal)
FMake(neg, mag) == [neg |-> neg /\ mag # <<0, 0, 0>>, mag |-> mag]

\* float(n) for an int n >= 0
FromInt(n) == FMake(FALSE, <<4 * n, 0, 0>>)

\* the float nearest to num / den (a decimal literal such as 0.3 = 3 / 10),
\* for 0 and for values of at least 1/16
Binary64(num, den) ==
    LET q2 == (4 * num) \div den
        r2 == (4 * num) % den
        q1 == (r2 * Limb) \div den
        r1 == (r2 * Limb) % den
        q0 == (r1 * Limb) \div den
        r0 == (r1 * Limb) % den
        frac == IF r0 = 0 THEN 0
                ELSE IF 2 * r0 < den THEN 1
                ELSE IF 2 * r0 = den THEN 2 ELSE 3
    IN FMake(FALSE, Nearest(q2, q1, q0, frac))

\* x + y
FAdd(x, y) ==
    LET less == \/ x.mag[1] < y.mag[1]
                \/ x.mag[1] = y.mag[1] /\ x.mag[2] < y.mag[2]
                \/ x.mag[1] = y.mag[1] /\ x.mag[2] = y.mag[2] /\ x.mag[3] < y.mag[3]
        big == IF less THEN y.mag ELSE x.mag
        small == IF less THEN x.mag ELSE y.mag
        d0 == big[3] - small[3]
        b0 == IF d0 < 0 THEN 1 ELSE 0
        d1 == big[2] - small[2] - b0
        b1 == IF d1 < 0 THEN 1 ELSE 0
    IN IF x.neg = y.neg
       THEN FMake(x.neg, Nearest(x.mag[1] + y.mag[1], x.mag[2] + y.mag[2],
                                 x.mag[3] + y.mag[3], 0))
       ELSE FMake(IF less THEN y.neg ELSE x.neg,
                  Nearest(big[1] - small[1] - b1, d1 + b1 * Limb, d0 + b0 * Limb, 0))

\* x - y
FSub(x, y) == FAdd(x, FMake(~ y.neg, y.mag))

\* k * w for an int k >= 0
IntTimes(k, w) == FMake(w.neg, Nearest(w.mag[1] * k, w.mag[2] * k, w.mag[3] * k, 0))

\* sum(values): the additions from left to right, starting at 0
RECURSIVE SumFrom(_, _)
SumFrom(acc, values) ==
    IF values = <<>> THEN acc ELSE SumFrom(FAdd(acc, Head(values)), Tail(values))

\* "score += len(set(s.liked) & gids) * likes_weight;
\*  score -= len(set(s.disliked) & gids) * dislikes_weight" for the students
\* of `group` from position k on
RECURSIVE AddStudentTerms(_, _, _, _, _)
AddStudentTerms(score, proj, lookup, group, k) ==
    IF k > Len(group.student_ids) THEN score
    ELSE LET sid == group.student_ids[k]
             gids == SetOf(group.student_ids)
         IN IF sid \in DOMAIN lookup
            THEN AddStudentTerms(
                   FSub(FAdd(score,
                             IntTimes(Cardinality(SetOf(lookup[sid].liked) \cap gids),
                                      proj.weights.likes_weight)),
                        IntTimes(Cardinality(SetOf(lookup[sid].disliked) \cap gids),
                                 proj.weights.dislikes_weight)),
                   proj, lookup, group, k + 1)
            ELSE AddStudentTerms(score, proj, lookup, group, k + 1)

calculate_group_score(proj, group) ==
    AddStudentTerms(FromInt(0), proj, _build_lookup(proj), group, 1)

\* calculate_constraint_penalty_details(project): <<penalty, details>>; every
\* group appends its size entry, then one entry for each violated constraint,
\* and the penalty grows by p with every entry appended
calculate_constraint_penalty_details(proj) ==
    LET lookup == _build_lookup(proj)
        size(group) ==
            IF Len(group.student_ids) > group.max_size
            THEN <<[group |-> group.name, amount |-> SizePenalty(group),
                    kind |-> "size", characteristic |-> ""]>>
            ELSE <<>>
        RECURSIVE entries(_, _)
        entries(group, c) ==
            IF c > Len(group.constraints) THEN <<>>
            ELSE LET constraint == group.constraints[c]
                     p == ConstraintTerm(proj, lookup, group, constraint)
                 IN (IF p > 0
                     THEN <<[group |-> group.name, amount |-> p,
                             kind |-> constraint.constraint_type,
                             characteristic |-> constraint.characteristic]>>
                     ELSE <<>>) \o entries(group, c + 1)
        RECURSIVE grown(_, _, _)
        grown(sum, added, k) ==
            IF k > Len(added) THEN sum
            ELSE grown(sum + added[k].amount, added, k + 1)
        RECURSIVE groups_from(_, _)
        groups_from(g, acc) ==
            IF g > Len(proj.groups) THEN acc
            ELSE LET added == size(proj.groups[g]) \o entries(proj.groups[g], 1)
                 IN groups_from(g + 1, <<grown(acc[1], added, 1), acc[2] \o added>>)
    IN groups_from(1, <<0, <<>>>>)

\* calculate_total_score(project)
calculate_total_score(proj) ==
    LET lookup == _build_lookup(proj)
        RECURSIVE total_from(_, _)
        total_from(g, total) ==
            IF g > Len(proj.groups) THEN total
            ELSE total_from(g + 1, AddStudentTerms(total, proj, lookup, proj.groups[g], 1))
    IN FSub(total_from(1, FromInt(0)), FromInt(calculate_constraint_penalty(proj, lookup)))

\* MainWindow.on_assignment_changed: "total_score = groups_sum - total_penalty"
status_total_score(proj) ==
    LET groups_sum == SumFrom(FromInt(0), [g \in DOMAIN proj.groups |->
                                         calculate_group_score(proj, proj.groups[g])])
        total_penalty == calculate_constraint_penalty_details(proj)[1]
    IN FSub(groups_sum, FromInt(total_penalty))

\* ------------------------------------------------------------------------
\* Hard-constraint report and the penalty shown by the main window
\* ------------------------------------------------------------------------
\* char_students[char] of check_hard_constraints: every student with char = True
hard_char_students(proj, char) ==
    {proj.students[i].id :
        i \in {j \in DOMAIN proj.students : HasChar(proj.students[j], char)}}

\* the violations constraint c onward of `group` appends
RECURSIVE ConstraintViolations(_, _, _)
ConstraintViolations(proj, group, c) ==
    IF c > Len(group.constraints) THEN <<>>
    ELSE LET constraint == group.constraints[c]
             char == constraint.characteristic
             gids == SetOf(group.student_ids)
             with_char == hard_char_students(proj, char)
             in_group == with_char \cap gids
             missing == with_char \ gids
             here ==
                 IF constraint.constraint_type = ALL
                 THEN IF missing # {}
                      THEN <<[group |-> group.name, kind |-> ALL, characteristic |-> char,
                              count |-> Cardinality(missing), limit |-> None]>>
                      ELSE <<>>
                 ELSE IF constraint.constraint_type = MAX
                 THEN IF /\ Truthy(constraint.value)
                         /\ Cardinality(in_group) > constraint.value
                      THEN <<[group |-> group.name, kind |-> MAX, characteristic |-> char,
                              count |-> Cardinality(in_group), limit |-> constraint.value]>>
                      ELSE <<>>
                 ELSE <<>>
         IN here \o ConstraintViolations(proj, group, c + 1)

\* the violations group g onward appends
RECURSIVE GroupViolations(_, _)
GroupViolations(proj, g) ==
    IF g > Len(proj.groups) THEN <<>>
    ELSE LET group == proj.groups[g]
             size == IF Len(group.student_ids) > group.max_size
                     THEN <<[group |-> group.name, kind |-> "size", characteristic |-> "",
                             count |-> Len(group.student_ids), limit |-> group.max_size]>>
                     ELSE <<>>
         IN size \o ConstraintViolations(proj, group, 1) \o GroupViolations(proj, g + 1)

\* check_hard_constraints(project): <<ok, violations>>
check_hard_constraints(proj) ==
    LET violations == GroupViolations(proj, 1)
    IN <<Len(violations) = 0, violations>>

\* MainWindow.on_assignment_changed: the status bar is recomputed from the
\* penalty total and the hard-constraint report of the project on the board
on_assignment_changed ==
    /\ pc = "board"
    /\ penalty' = calculate_constraint_penalty_details(subject)[1]
    /\ hard' = check_hard_constraints(subject)
    /\ UNCHANGED <<heap, args, driver_vars, sa_vars, progress_calls, last_progress, pc,
                   canceled, invocation, first_outcome, doc, loaded, saved, subject>>

\* MainWindow.check_constraints: the report alone
check_constraints ==
    /\ pc = "board"
    /\ hard' = check_hard_constraints(subject)
    /\ UNCHANGED <<heap, args, driver_vars, sa_vars, progress_calls, last_progress, pc,
                   canceled, invocation, first_outcome, doc, loaded, saved, subject, penalty>>

NextBoard == on_assignment_changed \/ check_constraints

\* the constraint lists of the two groups, MAX caps 0, 1 and None included
BoardConstraintConfigs ==
    { <<<<>>, <<>>>>,
      <<<<Con(ALL, None)>>, <<Con(MAX, 1)>>>>,
      <<<<Con(MAX, 0)>>, <<Con(ALL, None)>>>>,
      <<<<Con(SOME, None)>>, <<Con(SOME, None)>>>>,
      <<<<Con(MAX, None)>>, <<Con(MAX, 1), Con(SOME, None)>>>>,
      <<<<Con(MAX, 0), Con(SOME, None)>>, <<Con(MAX, 0)>>>> }

\* valid projects on the board: any holders of X, any placement into groups
\* A (max_size 1) and B (max_size 2), any set of pinned students
BoardProjects ==
    {MkProject(NumStudents, holders, "ring", cons, <<1, 2>>, place, pins) :
        holders \in SUBSET StudentIds(NumStudents),
        cons \in BoardConstraintConfigs,
        place \in [StudentIds(NumStudents) -> 0..2],
        pins \in SUBSET StudentIds(NumStudents)}

\* the main window with a project on the board and nothing computed yet
InitBoard ==
    /\ DriverIdle
    /\ pc = "board"
    /\ subject \in BoardProjects
    /\ penalty = None
    /\ hard = <<>>
    /\ doc = <<>>
    /\ loaded = <<>>
    /\ saved = <<>>

SpecBoard == InitBoard /\ [][NextBoard]_vars

\* projects on the board with the weights of the spin boxes: the defaults
\* 1.0 and 2.0, and 0.1 with 0.4
StatusProjects ==
    {[MkProject(NumStudents, holders, profile, cons, <<1, 2>>, place, pins)
         EXCEPT !.weights = w] :
        holders \in {{}, {1}},
        profile \in {"ring", "loose"},
        cons \in BoardConstraintConfigs,
        place \in [StudentIds(NumStudents) -> 0..2],
        pins \in {{}, {1}},
        w \in { [likes_weight |-> Binary64(1, 1), dislikes_weight |-> Binary64(2, 1)],
                 [likes_weight |-> Binary64(1, 10), dislikes_weight |-> Binary64(4, 10)] }}

InitStatus ==
    /\ DriverIdle
    /\ pc = "board"
    /\ subject \in StatusProjects
    /\ penalty = None
    /\ hard = <<>>
    /\ doc = <<>>
    /\ loaded = <<>>
    /\ saved = <<>>

SpecStatus == InitStatus /\ [][NextBoard]_vars

\* ------------------------------------------------------------------------
\* initial_assignment called on a project of its own
\* ------------------------------------------------------------------------
\* current = initial_assignment(project): the result is a new object
call_initial_assignment ==
    /\ pc = "initial"
    /\ \E shuffled \in Shuffles(UnassignedPool(subject)) :
       \E result \in {initial_assignment(subject, shuffled)} :
       \E ref \in {FreshRef({})} :
          /\ heap' = HeapPut(heap, ref, result)
          /\ current' = ref
    /\ pc' = "assigned"
    /\ UNCHANGED <<env_vars, args, driver_vars, best_state, current_score, best_score,
                   temperature, iterations_since_improvement, iteration, move_kind,
                   accepted, score_delta, cp_delta, progress_calls, last_progress>>

\* valid projects of one group (max_size 2) or two groups (max_size 1 and 2):
\* any holders of X, any placement, any set of pinned students; the constraint
\* lists of the board and a MAX cap of 0 next to a group without constraints
InitialProjects ==
    {MkProject(NumStudents, holders, "mixed", cons, sizes, place, pins) :
        holders \in SUBSET StudentIds(NumStudents),
        cons \in BoardConstraintConfigs \cup { <<<<Con(MAX, 0)>>, <<>>>> },
        sizes \in {<<2>>, <<1, 2>>},
        place \in [StudentIds(NumStudents) -> 0..2],
        pins \in SUBSET StudentIds(NumStudents)}

InitInitial ==
    /\ DriverIdle
    /\ pc = "initial"
    /\ subject \in {p \in InitialProjects : AssignedIn(p) \subseteq StudentIds(NumStudents)}
    /\ penalty = None
    /\ hard = <<>>
    /\ doc = <<>>
    /\ loaded = <<>>
    /\ saved = <<>>

SpecInitial == InitInitial /\ [][call_initial_assignment]_vars

\* ------------------------------------------------------------------------
\* Kanban board: drag and drop, pin button
\* ------------------------------------------------------------------------
\* list.insert(position, x), position counted from 0
ListInsert(list, position, x) ==
    SubSeq(list, 1, position) \o <<x>> \o SubSeq(list, position + 1, Len(list))

\* index of the first TRUE of a sequence of truth values, 0 if there is none
FirstTrue(flags) ==
    IF \E g \in DOMAIN flags : flags[g]
    THEN CHOOSE g \in DOMAIN flags : flags[g] /\ \A h \in DOMAIN flags : flags[h] => g <= h
    ELSE 0

Unassigned == "unassigned"

\* KanbanBoard.on_student_dropped(student_id, target_group_name, position):
\* the groups of the board's Project after the handler
student_dropped(groups, student_id, target_group_name, position) ==
    LET src == FirstTrue([g \in DOMAIN groups |->
                             student_id \in SetOf(groups[g].student_ids)])
        removed ==
            IF src = 0 THEN groups
            ELSE [groups EXCEPT
                    ![src].student_ids = ListRemove(@, student_id),
                    ![src].pinned_student_ids =
                        IF /\ groups[src].name # target_group_name
                           /\ student_id \in SetOf(groups[src].pinned_student_ids)
                        THEN ListRemove(@, student_id)
                        ELSE @]
        tgt == FirstTrue([g \in DOMAIN removed |-> removed[g].name = target_group_name])
    IN IF target_group_name = Unassigned \/ tgt = 0 THEN removed
       ELSE [removed EXCEPT ![tgt].student_ids =
                IF position >= 0 /\ position <= Len(@)
                THEN ListInsert(@, position, student_id)
                ELSE Append(@, student_id)]

\* KanbanBoard.on_student_pin_changed(student_id, group_name, is_pinned)
student_pin_changed(groups, student_id, group_name, is_pinned) ==
    LET g == FirstTrue([h \in DOMAIN groups |-> groups[h].name = group_name])
    IN IF g = 0 THEN groups
       ELSE [groups EXCEPT ![g].pinned_student_ids =
                IF is_pinned
                THEN IF student_id \notin SetOf(@) THEN Append(@, student_id) ELSE @
                ELSE IF student_id \in SetOf(@) THEN ListRemove(@, student_id) ELSE @]

\* the pin button of a card: GroupColumn emits student_pin_changed for a
\* student shown in the column, with the column's group name and the new state
PinEvents(groups) ==
    UNION {{<<groups[g].student_ids[k], groups[g].name,
              groups[g].student_ids[k] \notin SetOf(groups[g].pinned_student_ids)>> :
               k \in DOMAIN groups[g].student_ids} : g \in DOMAIN groups}

\* a drop: any student card on the unassigned column (position -1) or on a
\* group column at a drop index
DropEvents(p) ==
    {<<p.students[i].id, Unassigned, 0 - 1>> : i \in DOMAIN p.students}
    \cup
    UNION {{<<p.students[i].id, p.groups[g].name, position>> :
               i \in DOMAIN p.students,
               position \in (0 - 1)..Len(p.groups[g].student_ids)} : g \in DOMAIN p.groups}

\* ------------------------------------------------------------------------
\* The caller edits its Project while the worker thread runs the driver
\* ------------------------------------------------------------------------
\* the UI thread handles a pin click between two steps of the driver; one
\* edit per run of the driver
caller_pin_changed ==
    /\ pc \in {"driver", "sa"}
    /\ heap[CallerRef] = input_project
    /\ \E e \in PinEvents(heap[CallerRef].groups) :
          heap' = [heap EXCEPT ![CallerRef].groups = student_pin_changed(@, e[1], e[2], e[3])]
    /\ UNCHANGED <<args, driver_vars, sa_vars, progress_calls, last_progress, pc, env_vars>>

\* the UI thread handles a drop between two steps of the driver
caller_student_dropped ==
    /\ pc \in {"driver", "sa"}
    /\ heap[CallerRef] = input_project
    /\ \E e \in DropEvents(heap[CallerRef]) :
          heap' = [heap EXCEPT ![CallerRef].groups = student_dropped(@, e[1], e[2], e[3])]
    /\ UNCHANGED <<args, driver_vars, sa_vars, progress_calls, last_progress, pc, env_vars>>

NextEdit ==
    \/ Next
    \/ caller_pin_changed
    \/ caller_student_dropped

\* the driver on a project with everybody placed and student 1 pinned
InitEdit ==
    \E n \in 2..MaxRestarts, all \in BOOLEAN :
        InitWith(MkProject(NumStudents, {1, 2}, "mixed",
                           <<<<Con(SOME, None)>>, <<Con(MAX, 1), Con(SOME, None)>>>>,
                           <<2, 2>>,
                           [i \in StudentIds(NumStudents) |->
                               IF i = NumStudents THEN 2 ELSE 1], {1}),
                 n, ShortParams, MaxIterations, all)

SpecEdit == InitEdit /\ [][NextEdit]_vars

\* ------------------------------------------------------------------------
\* The board edited while no optimization runs
\* ------------------------------------------------------------------------
\* "self.assignment_changed.emit()": MainWindow.on_assignment_changed
\* recomputes the status bar from the edited project
EmitAssignmentChanged(edited) ==
    /\ subject' = edited
    /\ penalty' = calculate_constraint_penalty_details(edited)[1]
    /\ hard' = check_hard_constraints(edited)

\* KanbanBoard.on_student_dropped
on_student_dropped ==
    /\ pc = "board"
    /\ \E e \in DropEvents(subject) :
          EmitAssignmentChanged(
              [subject EXCEPT !.groups = student_dropped(@, e[1], e[2], e[3])])
    /\ UNCHANGED <<heap, args, driver_vars, sa_vars, progress_calls, last_progress, pc,
                   canceled, invocation, first_outcome, doc, loaded, saved>>

\* KanbanBoard.on_student_pin_changed
on_student_pin_changed ==
    /\ pc = "board"
    /\ \E e \in PinEvents(subject.groups) :
          EmitAssignmentChanged(
              [subject EXCEPT !.groups = student_pin_changed(@, e[1], e[2], e[3])])
    /\ UNCHANGED <<heap, args, driver_vars, sa_vars, progress_calls, last_progress, pc,
                   canceled, invocation, first_outcome, doc, loaded, saved>>

NextKanban == on_student_dropped \/ on_student_pin_changed

\* valid projects on the board: any placement, any set of pinned students;
\* the names of the two groups as typed in the group configuration: distinct
\* names, the same name twice, and the name of the unassigned column
KanbanProjects ==
    {[MkProject(NumStudents, {}, "ring", <<<<>>, <<>>>>, <<2, 2>>, place, pins)
         EXCEPT !.groups = [g \in DOMAIN @ |-> [@[g] EXCEPT !.name = names[g]]]] :
        names \in { <<"A", "B">>, <<"A", "A">>, <<Unassigned, "B">> },
        place \in [StudentIds(NumStudents) -> 0..2],
        pins \in SUBSET StudentIds(NumStudents)}

InitKanban ==
    /\ DriverIdle
    /\ pc = "board"
    /\ subject \in KanbanProjects
    /\ penalty = None
    /\ hard = <<>>
    /\ doc = <<>>
    /\ loaded = <<>>
    /\ saved = <<>>

SpecKanban == InitKanban /\ [][NextKanban]_vars

\* ------------------------------------------------------------------------
\* Properties
\* ------------------------------------------------------------------------
\* number of occurrences of id in the student_ids lists of all groups
Occurrences(p, id) ==
    SumSeq([g \in DOMAIN p.groups |->
               Cardinality({k \in DOMAIN p.groups[g].student_ids :
                               p.groups[g].student_ids[k] = id})])

AssignedIds(p) == UNION {SetOf(p.groups[g].student_ids) : g \in DOMAIN p.groups}

AtMostOnce(p) == \A id \in AssignedIds(p) : Occurrences(p, id) = 1

\* p keeps the pinned lists of the input and every pinned id is in its group
PinsKept(p) ==
    \A g \in DOMAIN p.groups :
        /\ p.groups[g].pinned_student_ids = input_project.groups[g].pinned_student_ids
        /\ SetOf(p.groups[g].pinned_student_ids) \subseteq SetOf(p.groups[g].student_ids)

\* C1 (pinning): in every Project object of a run (the current assignment and
\* the best snapshot at every iteration boundary, every result of a restart,
\* the rebased base and everything returned) each group's pinned_student_ids
\* equals its input value and every pinned id is a member of that group.
C1_Pinning == \A r \in DOMAIN heap : PinsKept(heap[r])

\* a restart that began with initial_assignment has just accepted a move
\* while a student is pinned
C1_Witness ==
    /\ pc = "sa"
    /\ restart >= 1
    /\ accepted
    /\ pinned_students(heap[current]) # {}
    /\ heap[current].groups # heap[best_state].groups

\* C2 (partition): an iteration of simulated_annealing that starts with every
\* id in at most one group ends with every id in at most one group and with
\* the same set of assigned ids.
C2_Partition ==
    [][(pc = "sa" /\ pc' = "sa" /\ AtMostOnce(heap[current]))
          => /\ AtMostOnce(heap'[current'])
             /\ AssignedIds(heap'[current']) = AssignedIds(heap[current])]_vars

\* an accepted random move out of a partition that leaves students unassigned
C2_Witness ==
    /\ pc = "sa"
    /\ accepted
    /\ move_kind = "move"
    /\ AtMostOnce(heap[current])
    /\ AssignedIds(heap[current]) # DOMAIN heap[current].students
    /\ heap[current].groups # heap[project].groups

\* C3 (frame): the caller's Project object holds the value it had when the
\* driver was called, throughout the call and after it.
C3_CallerUnchanged ==
    /\ CallerRef \in DOMAIN heap
    /\ heap[CallerRef] = input_project

\* the driver returned after a rebase, with a result that differs from the input
C3_Witness ==
    /\ pc = "done"
    /\ rebase_count = 1
    /\ num_restarts >= 3
    /\ \E k \in DOMAIN returned : heap[returned[k]].groups # input_project.groups

\* C4 (move delta), as claimed: after an accepted random or smart move the
\* maintained score equals the full rescore, and the penalty delta equals the
\* change of the full constraint penalty.  (Checked on single steps, where the
\* run starts from the caller's assignment.)
C4_MoveDeltaExact ==
    (pc = "sa" /\ accepted /\ move_kind \in {"move", "smart"})
        => /\ current_score = full_score(heap[current])
           /\ cp_delta = calculate_constraint_penalty(heap[current], _build_lookup(heap[current]))
                         - calculate_constraint_penalty(heap[CallerRef], _build_lookup(heap[CallerRef]))

\* C5 (ALL under swap), as claimed: an accepted swap leaves the ALL component
\* of the constraint penalty unchanged.
C5_SwapKeepsAll ==
    (pc = "sa" /\ accepted /\ move_kind = "swap")
        => TypedPenalty(heap[current], _build_lookup(heap[current]), {ALL})
           = TypedPenalty(heap[CallerRef], _build_lookup(heap[CallerRef]), {ALL})

\* C6 (swap size/MAX delta), as claimed: an accepted swap leaves the size
\* penalty unchanged and the swap delta equals the change of the MAX component.
C6_SwapMaxDeltaExact ==
    (pc = "sa" /\ accepted /\ move_kind = "swap")
        => /\ TotalSizePenalty(heap[current]) = TotalSizePenalty(heap[CallerRef])
           /\ cp_delta = TypedPenalty(heap[current], _build_lookup(heap[current]), {MAX})
                         - TypedPenalty(heap[CallerRef], _build_lookup(heap[CallerRef]), {MAX})

\* C7 (monotonicity of best): best_score never decreases between two
\* iteration boundaries of one run, and overall_best_score never decreases.
C7_BestMonotone ==
    [][/\ (pc = "sa" /\ pc' = "sa") => best_score' >= best_score
       /\ overall_best_score' >= overall_best_score]_vars

\* in a later restart an accepted move made the current score worse than the
\* best score of the run, which is above the best result of the earlier restarts
C7_Witness ==
    /\ pc = "sa"
    /\ restart >= 1
    /\ accepted
    /\ current_score < best_score
    /\ overall_best_score > NegInf
    /\ best_score > overall_best_score

\* index in all_results of a returned reference
ResultIndex(ref) == CHOOSE k \in DOMAIN all_results : all_results[k] = ref

\* C8 (result order): with return_all_results the driver returns every
\* restart's Project once, by descending rescored score, equal scores in
\* increasing restart index; without it, the Project of the earliest restart
\* that attains the maximal rescored score.
C8_ResultOrder ==
    pc = "done" =>
        LET rescored == [ref \in SetOf(returned) \cup SetOf(all_results) |->
                            full_score(heap[ref])]
        IN IF return_all_results
           THEN /\ Len(returned) = num_restarts
                /\ {ResultIndex(returned[k]) : k \in DOMAIN returned} = 1..num_restarts
                /\ \A i, j \in DOMAIN returned :
                      i < j =>
                        \/ rescored[returned[i]] > rescored[returned[j]]
                        \/ /\ rescored[returned[i]] = rescored[returned[j]]
                           /\ ResultIndex(returned[i]) < ResultIndex(returned[j])
           ELSE /\ Len(returned) = 1
                /\ \E k \in DOMAIN all_results :
                      /\ returned[1] = all_results[k]
                      /\ \A m \in DOMAIN all_results :
                            /\ rescored[all_results[m]] <= rescored[all_results[k]]
                            /\ m < k => rescored[all_results[m]] < rescored[all_results[k]]

\* all results are returned; two of them tie and one scores differently
C8_Witness ==
    /\ pc = "done"
    /\ return_all_results
    /\ Len(returned) >= 3
    /\ \E i, j \in DOMAIN scores : i < j /\ scores[i] = scores[j]
                                    /\ heap[all_results[i]] # heap[all_results[j]]
    /\ \E i, j \in DOMAIN scores : scores[i] # scores[j]

\* C9 (start of a restart): restart 0 enters the loop with a clone of the
\* caller's Project, later restarts with a Project initial_assignment produces
\* from the base.
C9_RestartStart ==
    (pc = "sa" /\ iteration = 0) =>
        IF restart = 0
        THEN /\ current # CallerRef
             /\ heap[current] = heap[CallerRef]
        ELSE \E shuffled \in Shuffles(UnassignedPool(heap[project])) :
                heap[current] = initial_assignment(heap[project], shuffled)

\* a later restart starts from an assignment that is not the caller's, which
\* left students unassigned
C9_Witness ==
    /\ pc = "sa"
    /\ iteration = 0
    /\ restart >= 1
    /\ AssignedIds(input_project) # DOMAIN input_project.students
    /\ heap[current].groups # input_project.groups

\* first index among the first n scores that attains their maximum
FirstBest(n) ==
    CHOOSE k \in 1..n :
        \A m \in 1..n : /\ scores[m] <= scores[k]
                        /\ m < k => scores[m] < scores[k]

\* C10 (mid-run rebase): the base is the caller's Project up to and including
\* restart floor(N/2); once that restart is rescored the base is replaced,
\* exactly once, by a clone of the best result so far, and stays that clone.
C10_Rebase ==
    LET mid == num_restarts \div 2
        base_score == full_score(heap[project])
    IN IF restart <= mid
       THEN project = CallerRef /\ rebase_count = 0
       ELSE /\ rebase_count = 1
            /\ project \notin {CallerRef} \cup SetOf(all_results)
            /\ heap[project] = heap[all_results[FirstBest(mid + 1)]]
            /\ \A m \in 1..(mid + 1) :
                  full_score(heap[all_results[m]]) <= base_score

\* a restart after the middle one runs on a clone that differs from the
\* caller's Project
C10_Witness ==
    /\ pc = "sa"
    /\ restart > num_restarts \div 2
    /\ accepted
    /\ project # CallerRef
    /\ heap[project] # heap[CallerRef]

\* C11 (progress stride), as claimed: every executed iteration whose index is
\* a multiple of 100 calls the progress callback exactly once, with the global
\* iteration index, the temperature and best_score, also when no candidate
\* move could be generated; other iterations do not call it.
C11_ProgressEveryStride ==
    [][(pc = "sa" /\ iteration' = iteration + 1)
          => IF iteration % ProgressStride = 0
             THEN /\ progress_calls' = progress_calls + 1
                  /\ last_progress' = <<restart * max_iterations + iteration,
                                        temperature', best_score', restart + 1>>
             ELSE UNCHANGED <<progress_calls, last_progress>>]_vars

\* C12 (empty search space), as claimed: on a project without a non-pinned
\* student or with fewer than two groups the driver ends after a single
\* restart, with exactly one progress event, and returns the
\* input's student_ids in every group.
C12_EmptySearchOneRestart ==
    (EmptySearchSpace(input_project) /\ pc = "done")
        => /\ Len(all_results) = 1
           /\ progress_calls = 1
           /\ \A k \in DOMAIN returned :
                 \A g \in DOMAIN input_project.groups :
                    heap[returned[k]].groups[g].student_ids
                        = input_project.groups[g].student_ids

\* C13 (invalid Project), as claimed: a Project with duplicate student ids, a
\* pinned id outside its group or an id in two groups is refused at entry: no
\* restart runs and no Project is returned.
C13_InvalidRejected ==
    InvalidProject(input_project)
        => /\ pc \notin {"sa", "done"}
           /\ all_results = <<>>
           /\ returned = <<>>

\* C14 (cooperative cancellation), as claimed: a run that was canceled ends
\* by returning: the driver hands back the best result over the restarts that
\* completed and the one in flight, and starts no further restart.
C14_CancelReturnsBest ==
    (canceled /\ pc \notin {"driver", "sa"})
        => /\ pc = "done"
           /\ returned # <<>>
           /\ \A m \in DOMAIN all_results :
                 full_score(heap[returned[1]]) >= full_score(heap[all_results[m]])

\* C15 (determinism), as claimed: a second call with the same Project and the
\* same parameters returns the same Projects and reports the same progress
\* events as the first one; nothing but the caller's arguments decides the
\* outcome.
C15_SameInputsSameOutcome ==
    (pc = "done" /\ invocation = 2) => Outcome = first_outcome

C17_RoundTrip == pc = "saved" => saved = doc

\* members of `group` that are not pinned and have `char` = True
NonPinnedHolders(p, group, char) ==
    {i \in DOMAIN p.students :
        /\ p.students[i].id \in SetOf(group.student_ids)
        /\ p.students[i].id \notin SetOf(group.pinned_student_ids)
        /\ HasChar(p.students[i], char)}

\* 50 per non-pinned holder above the cap, summed over the MAX constraints
MaxExpected(p) ==
    SumSeq([g \in DOMAIN p.groups |->
        SumSeq([c \in DOMAIN p.groups[g].constraints |->
            LET constraint == p.groups[g].constraints[c]
            IN IF constraint.constraint_type = MAX
               THEN 50 * Max2(0, Cardinality(NonPinnedHolders(p, p.groups[g],
                                                 constraint.characteristic))
                                 - constraint.value)
               ELSE 0])])

\* every MAX constraint of p has an integer cap v >= 0
IntegerCaps(p) ==
    \A g \in DOMAIN p.groups : \A c \in DOMAIN p.groups[g].constraints :
        p.groups[g].constraints[c].constraint_type = MAX
            => p.groups[g].constraints[c].value >= 0

\* C18: for integer caps v >= 0, v = 0 included, the MAX part of the penalty
\* is 50 * max(0, n - v) per MAX constraint, n the number of non-pinned
\* students of the group that have the characteristic
C18_MaxPenalty ==
    (penalty # None /\ IntegerCaps(subject))
        => penalty - TotalSizePenalty(subject)
                   - TypedPenalty(subject, _build_lookup(subject), {ALL, SOME})
           = MaxExpected(subject)

\* the project in which student record i has the opposite value of X
ToggleX(p, i) ==
    [p EXCEPT !.students[i].characteristics =
        [c \in DOMAIN @ |-> IF c = "X" THEN ~ @[c] ELSE @[c]]]

\* 100 per member above max_size, pinned members counted
SizeExpected(p) ==
    SumSeq([g \in DOMAIN p.groups |->
        LET members == SetOf(p.groups[g].student_ids)
            pinned == SetOf(p.groups[g].pinned_student_ids)
        IN 100 * Max2(0, Cardinality(members \cap pinned) + Cardinality(members \ pinned)
                         - p.groups[g].max_size)])

\* 25 per SOME constraint whose group has no holder, pinned holders counted
SomeExpected(p) ==
    SumSeq([g \in DOMAIN p.groups |->
        SumSeq([c \in DOMAIN p.groups[g].constraints |->
            LET constraint == p.groups[g].constraints[c]
            IN IF /\ constraint.constraint_type = SOME
                  /\ ~ \E i \in DOMAIN p.students :
                         /\ p.students[i].id \in SetOf(p.groups[g].student_ids)
                         /\ HasChar(p.students[i], constraint.characteristic)
               THEN 25 ELSE 0])])

\* p has no ALL and no MAX constraint
OnlySome(p) ==
    \A g \in DOMAIN p.groups : \A c \in DOMAIN p.groups[g].constraints :
        p.groups[g].constraints[c].constraint_type = SOME

\* C19: what the penalty holds beyond the size and SOME terms (its ALL and MAX
\* components) is the same whether or not a pinned student has the
\* characteristic; the size term counts pinned members and a pinned holder
\* satisfies SOME, so without ALL and MAX constraints the penalty is those two
\* terms
C19_PinnedExempt ==
    penalty # None =>
        /\ \A i \in DOMAIN subject.students :
              subject.students[i].id \in pinned_students(subject) =>
                 penalty - SizeExpected(subject) - SomeExpected(subject)
                 = calculate_constraint_penalty(ToggleX(subject, i),
                                                _build_lookup(ToggleX(subject, i)))
                   - SizeExpected(ToggleX(subject, i)) - SomeExpected(ToggleX(subject, i))
        /\ OnlySome(subject) => penalty = SizeExpected(subject) + SomeExpected(subject)

\* the penalty of a project in which a group with MAX X, 1 holds a pinned and a
\* non-pinned holder of X has been computed
C19_Witness ==
    /\ penalty # None
    /\ \E g \in DOMAIN subject.groups :
          /\ \E c \in DOMAIN subject.groups[g].constraints :
                subject.groups[g].constraints[c] = Con(MAX, 1)
          /\ NonPinnedHolders(subject, subject.groups[g], "X") # {}
          /\ \E i \in DOMAIN subject.students :
                /\ subject.students[i].id \in SetOf(subject.groups[g].pinned_student_ids)
                /\ HasChar(subject.students[i], "X")

\* C20: the report is ok exactly when it lists no violation, no violation comes
\* from a SOME constraint, and it is ok exactly when the penalty of the same
\* project has nothing beyond its SOME component (its size, ALL and MAX
\* components are zero)
C20_HardCheckAgrees ==
    (penalty # None /\ hard # <<>>) =>
        /\ hard[1] <=> (Len(hard[2]) = 0)
        /\ \A k \in DOMAIN hard[2] : hard[2][k].kind # SOME
        /\ hard[1] <=>
              /\ TotalSizePenalty(subject) = 0
              /\ penalty - TotalSizePenalty(subject)
                         - TypedPenalty(subject, _build_lookup(subject), {SOME}) = 0

\* C21: a restart that builds a fresh assignment from the caller's Project
\* (restart >= 1, before the rebase) starts from an initial assignment of the
\* Project as it was when the driver was called, whatever the caller has done
\* to its object since
C21_Snapshot ==
    [][(pc = "driver" /\ pc' = "sa" /\ restart >= 1 /\ project = CallerRef)
          => heap'[current'] \in
                {initial_assignment(input_project, shuffled) :
                    shuffled \in Shuffles(UnassignedPool(input_project))}]_vars

\* the peer-preference part of the full score: likes minus dislikes inside
\* every group
PeerTotal(p) ==
    SumSeq([g \in DOMAIN p.groups |->
               PeerScore(p.groups[g], _build_lookup(p),
                         p.weights.likes_weight, p.weights.dislikes_weight)])

Members(groups) ==
    [id \in UNION {SetOf(groups[g].student_ids) : g \in DOMAIN groups} |->
        SumSeq([g \in DOMAIN groups |->
                   Cardinality({k \in DOMAIN groups[g].student_ids :
                                   groups[g].student_ids[k] = id})])]

\* C23: in an iteration with score change D at temperature T the candidate is
\* applied and current_score grows by D when D > 0, or when the draw is below
\* exp(D/T), which needs exp(D/T) > 0; in every other iteration the Project
\* (members and their order in every group) and current_score stay as they were
C23_AcceptanceRule ==
    [][(pc = "sa" /\ pc' = "sa")
          => /\ score_delta' > 0 => accepted'
             /\ accepted' =>
                   /\ current_score' = current_score + score_delta'
                   /\ heap'[current'].groups # heap[current].groups
                   /\ Members(heap'[current'].groups) = Members(heap[current].groups)
                   /\ score_delta' < 0 =>
                         temperature > ((0 - score_delta') * TempScale) \div 745
             /\ ~ accepted' =>
                   /\ heap'[current'] = heap[current]
                   /\ current_score' = current_score]_vars

\* a swap that lowers the score has been rolled back
C23_Witness ==
    /\ pc = "sa"
    /\ iteration = 1
    /\ ~ accepted
    /\ move_kind = "swap"
    /\ score_delta < 0
    /\ heap[current] = heap[CallerRef]

\* C24: when a rejected candidate brings the stagnation counter above
\* ReheatThreshold the reheat step runs: the temperature after it is at least
\* the cooled temperature it started from, and the stagnation counter is 0
C24_ReheatRaises ==
    [][(/\ pc = "sa" /\ pc' = "sa"
        /\ iterations_since_improvement = ReheatThreshold
        /\ ~ accepted' /\ score_delta' < 0)
          => /\ temperature' >= Cool(temperature, cooling_rate)
             /\ iterations_since_improvement' = 0]_vars

\* C25: the Project initial_assignment returns keeps every pinned student in
\* the group that pins it and lists every non-pinned student of the project in
\* exactly one group, once
C25_Totality ==
    pc = "assigned" =>
        LET result == heap[current]
        IN /\ \A g \in DOMAIN subject.groups :
                 /\ result.groups[g].pinned_student_ids = subject.groups[g].pinned_student_ids
                 /\ SetOf(subject.groups[g].pinned_student_ids)
                       \subseteq SetOf(result.groups[g].student_ids)
           /\ \A i \in DOMAIN subject.students :
                 subject.students[i].id \notin pinned_students(subject)
                    => Occurrences(result, subject.students[i].id) = 1

C25_Witness ==
    /\ pc = "assigned"
    /\ Len(subject.groups) = 2
    /\ pinned_students(subject) = {1}
    /\ subject.groups[2].constraints # <<>>
    /\ subject.groups[1].student_ids = <<1>>
    /\ Occurrences(subject, 2) = 0
    /\ heap[current].groups[2].student_ids = <<2>>

\* C26: passes A and B add a student only to a group below max_size; pass C
\* places a student into a group that is at max_size, or that has a MAX cap
\* v >= 0 already reached for a characteristic the student has, only when no
\* group is feasible for the student, and then into a group with the fewest
\* members
Capped(group, student, lookup) ==
    \E c \in DOMAIN group.constraints :
        LET constraint == group.constraints[c]
        IN /\ constraint.constraint_type = MAX
           /\ constraint.value # None
           /\ constraint.value >= 0
           /\ HasChar(student, constraint.characteristic)
           /\ CountWithChar(group.student_ids, lookup, constraint.characteristic)
                 >= constraint.value

Blocked(group, student, lookup) ==
    Len(group.student_ids) >= group.max_size \/ Capped(group, student, lookup)

GrownWithinSize(before, after) ==
    \A g \in DOMAIN before :
        Len(after[g].student_ids) > Len(before[g].student_ids)
           => Len(after[g].student_ids) <= after[g].max_size

RECURSIVE GreedyFeasible(_, _, _)
GreedyFeasible(groups, todo, lookup) ==
    IF todo = <<>> THEN TRUE
    ELSE LET student == Head(todo)
             idx == BestGroupIdx(groups, student, lookup)
         IN /\ Blocked(groups[idx], student, lookup)
                  => /\ \A g \in DOMAIN groups : Blocked(groups[g], student, lookup)
                     /\ \A g \in DOMAIN groups :
                           Len(groups[idx].student_ids) <= Len(groups[g].student_ids)
            /\ GreedyFeasible([groups EXCEPT ![idx].student_ids = Append(@, student.id)],
                              Tail(todo), lookup)

PassesFeasible(p, shuffled) ==
    LET lookup == _build_lookup(p)
        cleared == [groups |-> ClearAssignments(p.groups), unassigned |-> shuffled]
        after_all == PassAll(cleared, 1, 1)
        after_some == PassSome(after_all, lookup, 1, 1)
    IN /\ GrownWithinSize(cleared.groups, after_all.groups)
       /\ GrownWithinSize(after_all.groups, after_some.groups)
       /\ GreedyFeasible(after_some.groups, after_some.unassigned, lookup)

C26_Feasibility ==
    pc = "assigned" =>
        \A shuffled \in Shuffles(UnassignedPool(subject)) :
            heap[current] = initial_assignment(subject, shuffled)
               => PassesFeasible(subject, shuffled)

\* C27: the from-scratch total score of the Project simulated_annealing returns
\* for restart 0, and of the best Project optimize_with_restarts returns, is at
\* least the from-scratch total score of the input Project
C27_NeverWorse ==
    /\ all_results # <<>> => scores[1] >= full_score(input_project)
    /\ pc = "done" => full_score(heap[returned[1]]) >= full_score(input_project)

\* C28: once the status bar is computed, the total of
\* calculate_constraint_penalty_details equals calculate_constraint_penalty
\* and the sum of the amounts of its details, and the status-bar total (the
\* sum of calculate_group_score over the groups minus that total) equals
\* calculate_total_score
C28_ReportAgrees ==
    (pc = "board" /\ penalty # None) =>
        LET report == calculate_constraint_penalty_details(subject)
        IN /\ penalty = calculate_constraint_penalty(subject, _build_lookup(subject))
           /\ penalty = SumSeq([k \in DOMAIN report[2] |-> report[2][k].amount])
           /\ status_total_score(subject) = calculate_total_score(subject)

\* C29: initial_assignment returns, for the same shuffle, the same Project for
\* the base Project and for the base Project with every non-pinned student
\* taken out of its group; two bases that differ only in the non-pinned
\* members of student_ids share that second Project, so they get the same
\* assignment
Unplaced(p) ==
    [p EXCEPT !.groups =
        [g \in DOMAIN p.groups |->
            [p.groups[g] EXCEPT !.student_ids = p.groups[g].pinned_student_ids]]]

C30_EditsKeepValid ==
    pc = "board" =>
        /\ \A i \in DOMAIN subject.students :
              Occurrences(subject, subject.students[i].id) <= 1
        /\ \A g \in DOMAIN subject.groups :
              SetOf(subject.groups[g].pinned_student_ids)
                 \subseteq SetOf(subject.groups[g].student_ids)

=========================================================================
